---- MODULE Spec2Model ----
(***************************************************************************)
(* A model of the content-admission and deduplication stage of the web     *)
(* crawler: scraper.py (djb2_hash, djb2_hash_bytes, is_near_duplicate,     *)
(* scraper, tokenize, extract_next_links, is_valid, valid_query).          *)
(*                                                                         *)
(* Python str and bytes values are TLA+ strings; a character is a string   *)
(* of length one.  Python's unbounded integers are little-endian sequences *)
(* of base-256 digits, so that the 64-bit mask of the hash functions is a  *)
(* real truncation.                                                        *)
(***************************************************************************)
EXTENDS Integers, Sequences, FiniteSets, TLC

(***************************************************************************)
(* Characters and strings                                                  *)
(***************************************************************************)

\* The printable ASCII characters in code order: codes 32..95 and 97..126
\* (code 96, the backquote, cannot be written in a TLA+ string).
AsciiLow ==
  " !\"#$%&'()*+,-./0123456789:;<=>?@ABCDEFGHIJKLMNOPQRSTUVWXYZ[\\]^_"

AsciiHigh == "abcdefghijklmnopqrstuvwxyz{|}~"

CharAt(s, i) == SubSeq(s, i, i)

\* ord(c)
OrdTable ==
  [ c \in { CharAt(AsciiLow, i) : i \in 1..Len(AsciiLow) }
          \cup { CharAt(AsciiHigh, i) : i \in 1..Len(AsciiHigh) } |->
      IF \E i \in 1..Len(AsciiLow) : CharAt(AsciiLow, i) = c
      THEN 31 + CHOOSE i \in 1..Len(AsciiLow) : CharAt(AsciiLow, i) = c
      ELSE 96 + CHOOSE i \in 1..Len(AsciiHigh) : CharAt(AsciiHigh, i) = c ]

ord(c) == OrdTable[c]

chr(n) == IF n <= 95 THEN CharAt(AsciiLow, n - 31) ELSE CharAt(AsciiHigh, n - 96)

IsUpper(c) == ord(c) >= 65 /\ ord(c) <= 90

IsAlpha(c) == IsUpper(c) \/ (ord(c) >= 97 /\ ord(c) <= 122)

IsDigit(c) == ord(c) >= 48 /\ ord(c) <= 57

\* A regex \w character (ASCII): letter, digit or underscore.
IsWordChar(c) == IsAlpha(c) \/ IsDigit(c) \/ c = "_"

LowerChar(c) == IF IsUpper(c) THEN chr(ord(c) + 32) ELSE c

\* The characters f[lo..hi] joined into one string (the range is halved to keep
\* the evaluation shallow).
RECURSIVE JoinChars(_, _, _)
JoinChars(f, lo, hi) ==
  IF lo > hi THEN ""
  ELSE IF lo = hi THEN f[lo]
  ELSE LET mid == (lo + hi) \div 2
       IN JoinChars(f, lo, mid) \o JoinChars(f, mid + 1, hi)

\* str.lower()
lower(s) == JoinChars([ i \in 1..Len(s) |-> LowerChar(CharAt(s, i)) ], 1, Len(s))

\* str.strip() of spaces
strip(s) ==
  LET keep == { i \in 1..Len(s) : CharAt(s, i) # " " }
  IN  IF keep = {} THEN ""
      ELSE SubSeq(s, CHOOSE i \in keep : \A j \in keep : i <= j,
                     CHOOSE i \in keep : \A j \in keep : i >= j)

\* s.startswith(p)
StartsWith(s, p) == Len(s) >= Len(p) /\ SubSeq(s, 1, Len(p)) = p

\* s.endswith(p)
EndsWith(s, p) == Len(s) >= Len(p) /\ SubSeq(s, Len(s) - Len(p) + 1, Len(s)) = p

\* p in s
Contains(s, p) == \E i \in 1..(Len(s) - Len(p) + 1) : SubSeq(s, i, i + Len(p) - 1) = p

\* s.find(p) + 1, or 0 when p does not occur in s
Find(s, p) ==
  IF Contains(s, p)
  THEN CHOOSE i \in 1..(Len(s) - Len(p) + 1) :
         /\ SubSeq(s, i, i + Len(p) - 1) = p
         /\ \A j \in 1..(i - 1) : SubSeq(s, j, j + Len(p) - 1) # p
  ELSE 0

\* s[i:] with i counted from 1
From(s, i) == SubSeq(s, i, Len(s))

\* The elements of S within lo..hi, in increasing order.
RECURSIVE SortedRange(_, _, _)
SortedRange(S, lo, hi) ==
  IF lo > hi THEN <<>>
  ELSE IF lo = hi THEN (IF lo \in S THEN <<lo>> ELSE <<>>)
  ELSE LET mid == (lo + hi) \div 2
       IN SortedRange(S, lo, mid) \o SortedRange(S, mid + 1, hi)

(***************************************************************************)
(* Unbounded naturals (Python int) in base 256, least significant first    *)
(***************************************************************************)

Base == 2^8

RECURSIVE NatDigits(_)
NatDigits(n) == IF n = 0 THEN <<>> ELSE <<n % Base>> \o NatDigits(n \div Base)

\* h * 33 + c, digit by digit with carry; d is the digits still to do.
RECURSIVE MulAdd33(_, _)
MulAdd33(d, carry) ==
  IF d = <<>> THEN NatDigits(carry)
  ELSE LET v == Head(d) * 33 + carry
       IN <<v % Base>> \o MulAdd33(Tail(d), v \div Base)

\* x & 0xFFFFFFFFFFFFFFFF: the eight low digits.
Mask64(d) == SubSeq(d \o <<0, 0, 0, 0, 0, 0, 0, 0>>, 1, 8)

\* djb2_hash: start at 5381, hash_value = ((hash_value << 5) + hash_value) + ord(char)
\* over the unbounded integer, masked to 64 bits once at the end.
RECURSIVE djb2_loop(_, _, _)
djb2_loop(text, i, hash_value) ==
  IF i > Len(text) THEN hash_value
  ELSE djb2_loop(text, i + 1, MulAdd33(hash_value, ord(CharAt(text, i))))

\* djb2_hash without the final & 0xFFFFFFFFFFFFFFFF.
djb2_hash_unmasked(text) == djb2_loop(text, 1, NatDigits(5381))

djb2_hash(text) == Mask64(djb2_loop(text, 1, NatDigits(5381)))

\* The low 64 bits of h * 33 + b.  A body may hold more than a million bytes, whose
\* unbounded accumulator has millions of bits; (h * 33 + b) mod 2^64 depends only
\* on h mod 2^64, so carrying the low 64 bits gives the value the final mask
\* (& 0xFFFFFFFFFFFFFFFF) leaves.
Step64(h, b) == Mask64(MulAdd33(h, b))

\* The loop of djb2_hash_bytes over data[lo..hi], started at h (the range is halved
\* to keep the evaluation shallow; the bytes are consumed in order).
RECURSIVE djb2_bytes_range(_, _, _, _)
djb2_bytes_range(data, lo, hi, h) ==
  IF lo > hi \/ Len(h) # 8 THEN h
  ELSE IF lo = hi THEN Step64(h, ord(CharAt(data, lo)))
  ELSE LET mid == (lo + hi) \div 2
       IN djb2_bytes_range(data, mid + 1, hi, djb2_bytes_range(data, lo, mid, h))

\* The eight base-256 digits of the low 64 bits of the number whose k-th column
\* (weight 256^(k-1)) holds cols[k].
RECURSIVE Carry64(_, _, _)
Carry64(cols, k, carry) ==
  IF k > 8 THEN <<>>
  ELSE LET t == cols[k] + carry
       IN  <<t % Base>> \o Carry64(cols, k + 1, t \div Base)

\* a[1]*b[k] + a[2]*b[k-1] + ... + a[k]*b[1]
RECURSIVE Column(_, _, _, _)
Column(a, b, k, i) ==
  IF i > k THEN 0 ELSE a[i] * b[k + 1 - i] + Column(a, b, k, i + 1)

\* (a * b) & 0xFFFFFFFFFFFFFFFF and (a + b) & 0xFFFFFFFFFFFFFFFF on digit tuples
Mul64(a, b) ==
  Carry64(<< Column(a, b, 1, 1), Column(a, b, 2, 1), Column(a, b, 3, 1), Column(a, b, 4, 1),
             Column(a, b, 5, 1), Column(a, b, 6, 1), Column(a, b, 7, 1), Column(a, b, 8, 1) >>,
          1, 0)
Add64(a, b) ==
  Carry64(<< a[1] + b[1], a[2] + b[2], a[3] + b[3], a[4] + b[4],
             a[5] + b[5], a[6] + b[6], a[7] + b[7], a[8] + b[8] >>, 1, 0)

\* The effect of count iterations of the loop body of djb2_hash_bytes on the low 64
\* bits, all on the same byte: hash_value -> m[1] * hash_value + m[2].  Obtained by
\* composing the one-iteration map 33 * hash_value + byte with itself.
RECURSIVE RunMap(_, _)
RunMap(byte, count) ==
  IF count = 0 THEN << Mask64(<<1>>), Mask64(<<0>>) >>
  ELSE LET half == RunMap(byte, count \div 2)
           twice == << Mul64(half[1], half[1]), Add64(Mul64(half[1], half[2]), half[2]) >>
       IN  IF Len(half[1]) # 8 \/ Len(half[2]) # 8 THEN half
           ELSE IF count % 2 = 0 THEN twice
           ELSE << Step64(twice[1], 0), Step64(twice[2], byte) >>

\* A response body: the bytes of head followed by pad space bytes.
content_len(content) == Len(content.head) + content.pad

\* djb2_hash_bytes(data): the loop over the bytes of head, then over the padding.
djb2_hash_bytes(data) ==
  LET h == djb2_bytes_range(data.head, 1, Len(data.head), Mask64(NatDigits(5381)))
      m == RunMap(32, data.pad)
  IN  Add64(Mul64(m[1], h), m[2])

(***************************************************************************)
(* Near-duplicate detection (is_near_duplicate)                            *)
(***************************************************************************)

\* if len(tokens) < 10
MIN_TOKENS == 10

\* tokens[i : i + 3]
SHINGLE == 3

\* h % 4 == 0
SAMPLE_MOD == 4

\* threshold: float = 0.95, as the fraction THRESHOLD_NUM / THRESHOLD_DEN.  The
\* float comparison intersection / union >= 0.95 agrees with the exact comparison
\* for every union below 10^14 elements.
THRESHOLD_NUM == 95

THRESHOLD_DEN == 100

\* " ".join(tokens[i : i + 3]) for i in range(len(tokens) - 2)
trigrams(tokens) ==
  [ i \in 1..(Len(tokens) - (SHINGLE - 1)) |->
      tokens[i] \o " " \o tokens[i + 1] \o " " \o tokens[i + 2] ]

\* {djb2_hash(t) for t in trigrams}
trigram_hashes(tokens) ==
  { djb2_hash(trigrams(tokens)[i]) : i \in 1..(Len(tokens) - (SHINGLE - 1)) }

\* h % 4 == 0, on the 64-bit value whose low digit is h[1]
Sampled(h) == h[1] % SAMPLE_MOD = 0

\* frozenset(h for h in trigram_hashes if h % 4 == 0)
fingerprint_of(tokens) == { h \in trigram_hashes(tokens) : Sampled(h) }

\* Similar with > in place of >=: a pair at exactly the threshold is not similar.
similar_above(fingerprint, seen) ==
  LET intersection == Cardinality(fingerprint \cap seen)
      union == Cardinality(fingerprint \cup seen)
  IN  union > 0 /\ intersection * THRESHOLD_DEN > THRESHOLD_NUM * union

\* union > 0 and intersection / union >= threshold
Similar(fingerprint, seen) ==
  LET intersection == Cardinality(fingerprint \cap seen)
      union == Cardinality(fingerprint \cup seen)
  IN  union > 0 /\ intersection * THRESHOLD_DEN >= THRESHOLD_NUM * union

(***************************************************************************)
(* Token sequences given to is_near_duplicate                              *)
(***************************************************************************)

\* seq * k
RECURSIVE Repeat(_, _)
Repeat(seq, k) ==
  IF k = 0 THEN <<>>
  ELSE IF k = 1 THEN seq
  ELSE Repeat(seq, k \div 2) \o Repeat(seq, k - (k \div 2))

\* The first k of the two-letter words aa, ab, ..., az, ba, ...
TwoLetterDoc(k) ==
  [ i \in 1..k |-> CharAt(AsciiHigh, 1 + ((i - 1) \div 26))
                     \o CharAt(AsciiHigh, 1 + ((i - 1) % 26)) ]

\* test_near_duplicate: doc1, doc2 (one word of the pattern replaced), doc3
doc1 == Repeat(<<"web", "crawler", "python", "scraper", "html", "parsing">>, 10)

doc2 == Repeat(<<"web", "crawler", "python", "scraper", "html", "parser">>, 10)

doc3 == Repeat(<<"machine", "learning", "neural", "network", "training", "model">>, 10)

\* The token sequences is_near_duplicate is called on.
\*   4, 5    two ten-token sequences over disjoint vocabularies: the trigrams
\*           "xc abmc abaa" and "xabc mabc aa" have the same djb2 value
\*   6, 7    a three-word pattern, all of whose trigrams are sampled: 12 and 9 tokens
\*   8       ten tokens none of whose trigrams is sampled
\*   9 - 11  84, 83 and 74 two-letter words: 20, 19 and 18 sampled trigram hashes,
\*           each set contained in the next larger one
\*   12      four tokens: fewer than MIN_TOKENS
\*   13      another three-word pattern
Docs ==
  << doc1, doc2, doc3,
     Repeat(<<"qr">>, 7) \o <<"xc", "abmc", "abaa">>,
     Repeat(<<"vv">>, 7) \o <<"xabc", "mabc", "aa">>,
     Repeat(<<"data", "mining", "theory">>, 4),
     Repeat(<<"data", "mining", "theory">>, 3),
     Repeat(<<"index", "cache", "faculty">>, 3) \o <<"index">>,
     TwoLetterDoc(84),
     TwoLetterDoc(83),
     TwoLetterDoc(74),
     <<"web", "crawler", "python", "scraper">>,
     Repeat(<<"graph", "logic", "query">>, 4) >>

(***************************************************************************)
(* Text extraction: BeautifulSoup(html, "lxml"), tokenize, STOPWORDS        *)
(***************************************************************************)

STOPWORDS ==
  {
    "a", "about", "above", "after", "again", "against", "all", "am", "an", "and", "any",
    "are", "aren't", "as", "at", "be", "because", "been", "before", "being", "below",
    "between", "both", "but", "by", "can't", "cannot", "could", "couldn't", "did",
    "didn't", "do", "does", "doesn't", "doing", "don't", "down", "during", "each",
    "few", "for", "from", "further", "had", "hadn't", "has", "hasn't", "have",
    "haven't", "having", "he", "he'd", "he'll", "he's", "her", "here", "here's", "hers",
    "herself", "him", "himself", "his", "how", "how's", "i", "i'd", "i'll", "i'm",
    "i've", "if", "in", "into", "is", "isn't", "it", "it's", "its", "itself", "let's",
    "me", "more", "most", "mustn't", "my", "myself", "no", "nor", "not", "of", "off",
    "on", "once", "only", "or", "other", "ought", "our", "ours", "ourselves", "out",
    "over", "own", "same", "shan't", "she", "she'd", "she'll", "she's", "should",
    "shouldn't", "so", "some", "such", "than", "that", "that's", "the", "their",
    "theirs", "them", "themselves", "then", "there", "there's", "these", "they",
    "they'd", "they'll", "they're", "they've", "this", "those", "through", "to", "too",
    "under", "until", "up", "very", "was", "wasn't", "we", "we'd", "we'll", "we're",
    "we've", "were", "weren't", "what", "what's", "when", "when's", "where", "where's",
    "which", "while", "who", "who's", "whom", "why", "why's", "with", "won't", "would",
    "wouldn't", "you", "you'd", "you'll", "you're", "you've", "your", "yours",
    "yourself", "yourselves"
  }

\* The tags of html in document order, as <<first, last>> positions of their < and
\* >, for html in which < and > only delimit tags.
TagSpans(html) ==
  LET opens == SortedRange({ o \in 1..Len(html) : CharAt(html, o) = "<" }, 1, Len(html))
      closes == SortedRange({ c \in 1..Len(html) : CharAt(html, c) = ">" }, 1, Len(html))
  IN  [ k \in 1..Len(opens) |-> << opens[k], closes[k] >> ]

\* soup.get_text(separator=" "): the text nodes, joined by a space where a tag
\* stood between them.
get_text(html) ==
  LET spans == TagSpans(html)
      InTag(i) == \E k \in 1..Len(spans) : spans[k][1] <= i /\ i <= spans[k][2]
  IN  JoinChars([ i \in 1..Len(html) |->
                    IF InTag(i)
                    THEN (IF CharAt(html, i) = ">" THEN " " ELSE "")
                    ELSE CharAt(html, i) ], 1, Len(html))

\* The value of the href attribute of the tag text tag (href="..."), for a tag
\* that has one.
HrefOf(tag) ==
  LET start == Find(tag, "href=\"") + 6
      rest == From(tag, start)
  IN  SubSeq(rest, 1, Find(rest, "\"") - 1)

IsAnchorWithHref(tag) ==
  /\ StartsWith(tag, "a ")
  /\ Contains(tag, " href=\"")
  /\ Contains(From(tag, Find(tag, "href=\"") + 6), "\"")

\* [a_tag["href"] for a_tag in soup.find_all("a", href=True)]
find_all_a_href(html) ==
  LET spans == TagSpans(html)
      tag(k) == SubSeq(html, spans[k][1] + 1, spans[k][2] - 1)
      anchors == SelectSeq([ k \in 1..Len(spans) |-> tag(k) ], IsAnchorWithHref)
  IN  [ k \in 1..Len(anchors) |-> HrefOf(anchors[k]) ]

\* tokenize: text.lower(), then re.findall(r"\b[a-zA-Z]{2,}\b", text): the maximal
\* runs of \w characters that hold two or more letters and nothing else.
IsAlphaWord(w) == Len(w) >= 2 /\ \A i \in 1..Len(w) : IsAlpha(CharAt(w, i))

tokenize(text) ==
  LET t == lower(text)
      W(i) == IsWordChar(CharAt(t, i))
      starts == SortedRange({ i \in 1..Len(t) : W(i) /\ (i = 1 \/ ~ W(i - 1)) }, 1, Len(t))
      ends == SortedRange({ i \in 1..Len(t) : W(i) /\ (i = Len(t) \/ ~ W(i + 1)) }, 1, Len(t))
  IN  SelectSeq([ k \in 1..Len(starts) |-> SubSeq(t, starts[k], ends[k]) ], IsAlphaWord)

NotStopword(w) == w \notin STOPWORDS

\* words = [w for w in tokenize(text) if w not in STOPWORDS]
filtered_words(html) == SelectSeq(tokenize(get_text(html)), NotStopword)

(***************************************************************************)
(* URLs: urllib.parse (urlparse, urljoin, urldefrag, parse_qs) and          *)
(* utils.normalize                                                         *)
(***************************************************************************)

\* s.split(sep) for a one-character sep
split(s, sep) ==
  LET cuts == SortedRange({ i \in 1..Len(s) : CharAt(s, i) = sep }, 1, Len(s))
      from(k) == IF k = 1 THEN 1 ELSE cuts[k - 1] + 1
      upto(k) == IF k = Len(cuts) + 1 THEN Len(s) ELSE cuts[k] - 1
  IN  [ k \in 1..(Len(cuts) + 1) |-> SubSeq(s, from(k), upto(k)) ]

\* s.partition(sep)[0] and [2] for a one-character sep
Before(s, sep) == IF Contains(s, sep) THEN SubSeq(s, 1, Find(s, sep) - 1) ELSE s

After(s, sep) == IF Contains(s, sep) THEN From(s, Find(s, sep) + 1) ELSE ""

\* s.rpartition(sep)[2] for a one-character sep
AfterLast(s, sep) ==
  IF Contains(s, sep)
  THEN From(s, 1 + CHOOSE i \in 1..Len(s) :
                      CharAt(s, i) = sep /\ \A j \in (i + 1)..Len(s) : CharAt(s, j) # sep)
  ELSE s

IsSchemeChar(c) == IsAlpha(c) \/ IsDigit(c) \/ c \in {"+", "-", "."}

\* urlsplit's test for a leading "scheme:"
HasScheme(url) ==
  /\ Find(url, ":") > 1
  /\ IsAlpha(CharAt(url, 1))
  /\ \A i \in 1..(Find(url, ":") - 1) : IsSchemeChar(CharAt(url, i))

\* _splitnetloc(url, 2): the end of the netloc of "//netloc...", the position before
\* the first of / ? # after the two slashes.
NetlocEnd(rest) ==
  LET delims == { i \in 3..Len(rest) : CharAt(rest, i) \in {"/", "?", "#"} }
  IN  IF delims = {} THEN Len(rest) ELSE (CHOOSE i \in delims : \A j \in delims : i <= j) - 1

\* urlsplit raises ValueError("Invalid IPv6 URL") on a netloc with one bracket only.
BadBrackets(netloc) ==
  \/ Contains(netloc, "[") /\ ~ Contains(netloc, "]")
  \/ Contains(netloc, "]") /\ ~ Contains(netloc, "[")

\* A ParseResult, and the outcome of a parse that raises ValueError.
ParseResult(scheme, netloc, path, params, query, fragment) ==
  [raised |-> "", scheme |-> scheme, netloc |-> netloc, path |-> path, params |-> params,
   query |-> query, fragment |-> fragment]
ParseError ==
  [raised |-> "ValueError", scheme |-> "", netloc |-> "", path |-> "", params |-> "",
   query |-> "", fragment |-> ""]

\* urlparse: _splitparams, on the last segment of the path
parse_params(scheme, netloc, fullpath, lastseg, query, fragment) ==
  IF Contains(lastseg, ";")
  THEN ParseResult(scheme, netloc,
                   SubSeq(fullpath, 1, Len(fullpath) - Len(lastseg)) \o Before(lastseg, ";"),
                   After(lastseg, ";"), query, fragment)
  ELSE ParseResult(scheme, netloc, fullpath, "", query, fragment)

\* urlsplit: the query is what follows the first "?"
parse_query(scheme, netloc, nofrag, fragment) ==
  parse_params(scheme, netloc, Before(nofrag, "?"), AfterLast(Before(nofrag, "?"), "/"),
               After(nofrag, "?"), fragment)

\* urlsplit: the bracket check on the netloc, then the fragment after the first "#"
parse_fragment(scheme, netloc, tail) ==
  IF BadBrackets(netloc) THEN ParseError
  ELSE parse_query(scheme, netloc, Before(tail, "#"), After(tail, "#"))

\* urlsplit after the scheme: the netloc of "//netloc..."
parse_netloc(scheme, rest) ==
  IF StartsWith(rest, "//")
  THEN parse_fragment(scheme, SubSeq(rest, 3, NetlocEnd(rest)), From(rest, NetlocEnd(rest) + 1))
  ELSE parse_fragment(scheme, "", rest)

\* urlparse(url, scheme=default): the six components, or the exception raised.
urlparse_default(url, default) ==
  IF HasScheme(url) THEN parse_netloc(lower(Before(url, ":")), After(url, ":"))
  ELSE parse_netloc(default, url)

urlparse(url) == urlparse_default(url, "")

\* ParseResult.hostname, with "" for None
hostname(parsed) ==
  LET hostinfo == AfterLast(parsed.netloc, "@")
  IN  lower(IF Contains(hostinfo, "[")
            THEN Before(After(hostinfo, "["), "]")
            ELSE Before(hostinfo, ":"))

\* urllib.parse.uses_netloc, without the empty scheme
USES_NETLOC ==
  {"ftp", "http", "gopher", "nntp", "telnet", "imap", "wais", "file", "mms", "https",
   "shttp", "snews", "prospero", "rtsp", "rtspu", "rsync", "svn", "svn+ssh", "sftp",
   "nfs", "git", "git+ssh", "ws", "wss"}

\* urlunparse
urlunparse(scheme, netloc, path, params, query, fragment) ==
  LET p1 == IF params # "" THEN path \o ";" \o params ELSE path
      p2 == IF netloc # "" \/ (scheme \in USES_NETLOC /\ ~ StartsWith(p1, "//"))
            THEN "//" \o netloc \o (IF p1 # "" /\ ~ StartsWith(p1, "/") THEN "/" ELSE "") \o p1
            ELSE p1
      p3 == IF scheme # "" THEN scheme \o ":" \o p2 ELSE p2
      p4 == IF query # "" THEN p3 \o "?" \o query ELSE p3
  IN  IF fragment # "" THEN p4 \o "#" \o fragment ELSE p4

\* urllib.parse.uses_relative
USES_RELATIVE ==
  {"", "ftp", "http", "gopher", "nntp", "imap", "wais", "file", "https", "shttp", "mms",
   "prospero", "rtsp", "rtspu", "sftp", "svn", "svn+ssh", "ws", "wss"}

\* urljoin: the path of the reference against the directory of the base path, for
\* references without "." and ".." segments.
resolve_path(basedir, path) ==
  IF StartsWith(path, "/") THEN path
  ELSE (IF basedir = "" THEN "/" ELSE basedir) \o path

\* urljoin once base and url are parsed into b and u.
join_parsed(url, b, u) ==
  IF b.raised # "" THEN [raised |-> b.raised, url |-> ""]
  ELSE IF u.raised # "" THEN [raised |-> u.raised, url |-> ""]
  ELSE IF u.scheme # b.scheme \/ u.scheme \notin USES_RELATIVE
    THEN [raised |-> "", url |-> url]
  ELSE IF u.netloc # ""
    THEN [raised |-> "",
          url |-> urlunparse(u.scheme, u.netloc, u.path, u.params, u.query, u.fragment)]
  ELSE IF u.path = "" /\ u.params = ""
    THEN [raised |-> "",
          url |-> urlunparse(u.scheme, b.netloc, b.path, b.params,
                             IF u.query = "" THEN b.query ELSE u.query, u.fragment)]
  ELSE [raised |-> "",
        url |-> urlunparse(u.scheme, b.netloc,
                           resolve_path(SubSeq(b.path, 1,
                                               Len(b.path) - Len(AfterLast(b.path, "/"))),
                                        u.path),
                           u.params, u.query, u.fragment)]

\* urljoin: the reference is parsed with the scheme of the base as default.
join_base(url, b) == join_parsed(url, b, urlparse_default(url, b.scheme))

\* urljoin(base, url): [raised, url]
urljoin(base, url) ==
  IF base = "" THEN [raised |-> "", url |-> url]
  ELSE IF url = "" THEN [raised |-> "", url |-> base]
  ELSE join_base(url, urlparse(base))

\* urlunparse of a ParseResult without its fragment
unparse_defragged(u) == urlunparse(u.scheme, u.netloc, u.path, u.params, u.query, "")

\* urldefrag(url)[0], for a url that parses
urldefrag(url) == IF Contains(url, "#") THEN unparse_defragged(urlparse(url)) ELSE url

\* str.rstrip("/")
RECURSIVE rstrip_slash(_)
rstrip_slash(s) == IF EndsWith(s, "/") THEN rstrip_slash(SubSeq(s, 1, Len(s) - 1)) ELSE s

\* utils.normalize: the trailing-slash rule of the URL normalizer.
normalize(url) == rstrip_slash(url)

\* The keys of parse_qs(query): the pieces between "&" of the form name=value with a
\* non-empty value ("+" in a name stands for a space; the model's queries hold
\* no percent-escapes).
parse_qs_keys(query) ==
  LET pairs == split(query, "&")
      kept == { k \in 1..Len(pairs) : Contains(pairs[k], "=") /\ After(pairs[k], "=") # "" }
      plus(c) == IF c = "+" THEN " " ELSE c
      name(k) == LET raw == Before(pairs[k], "=")
                 IN  JoinChars([ i \in 1..Len(raw) |-> plus(CharAt(raw, i)) ], 1, Len(raw))
  IN  { name(k) : k \in kept }

(***************************************************************************)
(* is_valid and valid_query                                                *)
(***************************************************************************)

DOKU_MEDIA_PARAMS == {"do", "tab_files", "tab_details", "image", "ns"}

invalid_query_parameters ==
  {"do", "media", "ical", "idx", "sid", "rev", "rev2", "action", "version", "tab_files",
   "tab_details", "a", "h", "hb", "sf", "outlook-ical", "C", "O", "share", "format",
   "replytocom"}

\* if len(q) > 100
MAX_QUERY_PARAMS == 100

\* valid_query on the keys q of parse_qs(parsed.query or "")
valid_keys(q) ==
  /\ ~ \E k \in q : k \in DOKU_MEDIA_PARAMS
  /\ ~ (Cardinality(q) > MAX_QUERY_PARAMS)
  /\ ~ \E key \in q : key \in invalid_query_parameters

\* valid_query(parsed)
valid_query(parsed) == valid_keys(parse_qs_keys(parsed.query))

allowed_domains == {".ics.uci.edu", ".cs.uci.edu", ".informatics.uci.edu", ".stat.uci.edu"}

\* The file extensions of the final re.match of is_valid.
DENIED_EXTENSIONS ==
  {"css", "js", "bmp", "gif", "jpeg", "jpg", "ico", "png", "tiff", "tif", "mid", "mp2",
   "mp3", "mp4", "wav", "avi", "mov", "mpeg", "ram", "m4v", "mkv", "ogg", "ogv", "pdf",
   "ps", "eps", "tex", "ppt", "pptx", "doc", "docx", "xls", "xlsx", "names", "data",
   "dat", "exe", "bz2", "tar", "msi", "bin", "7z", "psd", "dmg", "iso", "epub", "dll",
   "cnf", "tgz", "sha1", "thmx", "mso", "arff", "rtf", "jar", "csv", "war", "java",
   "bam", "svg", "ppsx", "pps", "rm", "smil", "wmv", "swf", "wma", "zip", "rar", "gz"}

\* The pattern pat matches s at position i; in a pattern "#" stands for \d and every
\* other character for itself.
MatchAt(s, i, pat) ==
  /\ i >= 1
  /\ i + Len(pat) - 1 <= Len(s)
  /\ \A k \in 1..Len(pat) :
       IF CharAt(pat, k) = "#" THEN IsDigit(CharAt(s, i + k - 1))
       ELSE CharAt(s, i + k - 1) = CharAt(pat, k)

\* re.search(pat, s)
Search(s, pat) == \E i \in 1..Len(s) : MatchAt(s, i, pat)

\* re.search(pat + "$", s)
SearchEnd(s, pat) == MatchAt(s, Len(s) - Len(pat) + 1, pat)

\* The substring tests of the trap condition, on parsed.path.lower() and
\* parsed.query.lower().
trap_marker(path, query) ==
  \/ Contains(path, "timeline")
  \/ Contains(path, "ml/datasets")
  \/ Contains(path, "/events/")
  \/ Contains(path, "tribe")
  \/ Contains(query, "tribe")
  \/ Contains(path, "wp-login")
  \/ Contains(path, "/auth/")
  \/ Contains(path, "/login")
  \/ Contains(path, "/register")
  \/ Contains(path, "ical")
  \/ Contains(query, "ical")
  \/ Contains(path, "eppstein/pix")
  \/ Contains(path, "doku.php")
  \/ Contains(path, "dataset")
  \/ Contains(path, "sld")

\* The trap condition of is_valid: the markers, then the date patterns.
is_trap(parsed) ==
  \/ trap_marker(lower(parsed.path), lower(parsed.query))
  \/ Search(parsed.path, "/####/##/##")
  \/ Search(parsed.path, "/day/####-##-##")
  \/ SearchEnd(parsed.path, "/####-##")
  \/ Search(parsed.query, "date=####-##-##")

\* re.match(r".*\.(css|js|...)$", parsed.path.lower())
has_denied_extension(parsed) ==
  \E ext \in DENIED_EXTENSIONS : EndsWith(lower(parsed.path), "." \o ext)

\* host_rejected without the test for gitlab.ics.uci.edu.
host_outside_domains(host) == ~ \E domain \in allowed_domains : EndsWith(host, domain)

\* host == "gitlab.ics.uci.edu", or no allowed domain ends host
host_rejected(host) ==
  \/ host = "gitlab.ics.uci.edu"
  \/ ~ \E domain \in allowed_domains : EndsWith(host, domain)

\* The body of the try block of is_valid after parsed = urlparse(url).
is_valid_parsed(parsed) ==
  IF parsed.raised = "TypeError" THEN [raised |-> "", value |-> FALSE]
  ELSE IF parsed.raised # "" THEN [raised |-> parsed.raised, value |-> FALSE]
  ELSE IF parsed.scheme \notin {"http", "https"} THEN [raised |-> "", value |-> FALSE]
  ELSE IF parsed.fragment # "" THEN [raised |-> "", value |-> FALSE]
  ELSE IF is_trap(parsed) THEN [raised |-> "", value |-> FALSE]
  ELSE IF host_rejected(lower(hostname(parsed))) THEN [raised |-> "", value |-> FALSE]
  ELSE IF ~ valid_query(parsed) THEN [raised |-> "", value |-> FALSE]
  ELSE [raised |-> "", value |-> ~ has_denied_extension(parsed)]

\* is_valid(url): [raised, value].  urlparse raises ValueError on a netloc with an
\* unbalanced bracket; the try block catches TypeError only, so every other
\* exception leaves is_valid.
is_valid(url) == is_valid_parsed(urlparse(url))

(***************************************************************************)
(* Responses delivered to scraper(url, resp)                               *)
(***************************************************************************)

\* sep.join(seq)
RECURSIVE join(_, _)
join(sep, seq) ==
  IF Len(seq) = 0 THEN ""
  ELSE IF Len(seq) = 1 THEN seq[1]
  ELSE LET mid == Len(seq) \div 2
       IN  join(sep, SubSeq(seq, 1, mid)) \o sep \o join(sep, SubSeq(seq, mid + 1, Len(seq)))

\* The anchors of page A: a relative link, a fragment-only link, a mailto link and a
\* link on which urljoin raises ValueError.  Their texts are stop words.
anchorsA ==
  "<a href=\"/about\">about</a><a href=\"#top\">here</a>"
    \o "<a href=\"mailto:x@ics.uci.edu\">more</a><a href=\"http://[::1\">there</a>"

\* The anchors of page B: a scheme-relative link with a trailing slash, a link to a
\* pdf, and a link padded with blanks.
anchorsB ==
  "<a href=\"//www.informatics.uci.edu/research/\">about</a>"
    \o "<a href=\"https://www.stat.uci.edu/x.pdf\">here</a>"
    \o "<a href=\" https://www.cs.uci.edu/people \">more</a>"

\* The anchors of page G: one target written three ways.
anchorsG ==
  "<a href=\"/about\">about</a><a href=\"/about/\">here</a><a href=\"/about#team\">more</a>"

\* An html document with paragraph id ident, the given words and anchors.
page(ident, words, anchors) ==
  "<html><body><p id=\"" \o ident \o "\">" \o join(" ", words) \o "</p>" \o anchors
    \o "</body></html>"

\* 60 words of doc1; the bodies with id mz and id nY have the same djb2 value.
bodyA == [head |-> page("mz", doc1, anchorsA), pad |-> 0]
bodyAcoll == [head |-> page("nY", doc1, anchorsA), pad |-> 0]
bodyAnear == [head |-> page("qq", doc1, ""), pad |-> 0]

\* 60 words of doc3.
bodyB == [head |-> page("b", doc3, anchorsB), pad |-> 0]

\* 120 words, 60 distinct ones (kaa, kab, ...) twice, in a body of more than MAX_SIZE
\* bytes.
bodyG ==
  [head |-> page("g", Repeat([ i \in 1..60 |-> "k" \o TwoLetterDoc(60)[i] ], 2), anchorsG),
   pad |-> 1000000]

\* 53 words of which 13 are stop words: 40 filtered words.
bodyS ==
  [head |-> page("s", Repeat(<<"index", "the", "cache", "faculty">>, 13) \o <<"index">>, ""),
   pad |-> 0]

\* 60 words in a body of MAX_SIZE + 1 bytes.
bodyL ==
  LET text == page("l", Repeat(<<"data", "mining", "theory">>, 20), "")
  IN  [head |-> text, pad |-> 1000001 - Len(text)]

\* resp.raw_response (url, headers, content), or None
raw_response(url, headers, content) ==
  [none |-> FALSE, url |-> url, headers |-> headers, content |-> content]
NoRawResponse == [none |-> TRUE]

\* resp (status, raw_response), or None
Response(status, raw) == [none |-> FALSE, status |-> status, raw_response |-> raw]
NoResponse == [none |-> TRUE]

html_headers == "Content-Type" :> "text/html; charset=UTF-8"

\* A response with status 200 and html headers whose raw_response.url is url.
Page(url, content) ==
  [url |-> url, resp |-> Response(200, raw_response(url, html_headers, content))]

\* The calls scraper(url, resp) of the crawler: url is the frontier URL.
Calls ==
  << Page("https://www.ics.uci.edu/a", bodyA),
     Page("https://www.stat.uci.edu/b", bodyB),
     Page("https://www.ics.uci.edu/g", bodyG),
     Page("https://www.ics.uci.edu/a-copy", bodyA),
     Page("https://www.cs.uci.edu/coll", bodyAcoll),
     Page("https://www.ics.uci.edu/a-near", bodyAnear),
     [url |-> "https://www.ics.uci.edu/s",
      resp |-> Response(200, raw_response("https://www.ics.uci.edu/s",
                                          "Content-Type" :> "TEXT/HTML", bodyS))],
     Page("https://www.ics.uci.edu/l", bodyL),
     [url |-> "https://www.ics.uci.edu/none", resp |-> NoResponse],
     [url |-> "https://www.ics.uci.edu/missing",
      resp |-> Response(404, raw_response("https://www.ics.uci.edu/missing", html_headers,
                                          bodyB))],
     [url |-> "https://www.ics.uci.edu/empty", resp |-> Response(200, NoRawResponse)],
     [url |-> "https://www.ics.uci.edu/paper",
      resp |-> Response(200, raw_response("https://www.ics.uci.edu/paper",
                                          "Content-Type" :> "application/pdf", bodyB))],
     [url |-> "https://www.ics.uci.edu/bare",
      resp |-> Response(200, raw_response("https://www.ics.uci.edu/bare",
                                          "Server" :> "nginx", bodyB))],
     Page("https://www.ics.uci.edu/s-copy", bodyS) >>

(***************************************************************************)
(* extract_next_links and scraper                                          *)
(***************************************************************************)

\* MAX_SIZE = 1_000_000
MAX_SIZE == 1000000

\* if word_count < 50, and word_count < 100 in the large-file rule
MIN_WORDS == 50
RICH_WORDS == 100

\* Python's None as the url of LONGEST_PAGE
None == "None"

\* unsupported without the test of resp.status.
unsupported_any_status(resp) ==
  IF resp.none THEN TRUE
  ELSE resp.raw_response.none

\* resp is None or resp.status != 200 or resp.raw_response is None
unsupported(resp) ==
  IF resp.none THEN TRUE
  ELSE IF resp.status # 200 THEN TRUE
  ELSE resp.raw_response.none

\* (resp.raw_response.headers.get("Content-Type") or "").lower()
content_type(resp) ==
  IF "Content-Type" \in DOMAIN resp.raw_response.headers
  THEN lower(resp.raw_response.headers["Content-Type"])
  ELSE ""

\* "text/html" not in c_type
not_html(c_type) == ~ Contains(c_type, "text/html")

\* too_few_words with a floor of 40 words.
fewer_than_forty(word_count) == word_count < MIN_WORDS - 10

\* word_count < 50
too_few_words(word_count) == word_count < MIN_WORDS

\* word_count < 100 and len(html) > MAX_SIZE
sparse_large(word_count, size) == word_count < RICH_WORDS /\ size > MAX_SIZE

\* WORD_FREQUENCIES.update(words).  A Counter is a dict: it keeps its keys in the
\* order of their first insertion, here a sequence of [word, count]; update adds to
\* the counts of the words it holds and inserts the others as it meets them.
update(freq, words) ==
  LET known == { freq[k].word : k \in 1..Len(freq) }
      firsts == { k \in 1..Len(words) :
                    words[k] \notin known /\ \A j \in 1..(k - 1) : words[j] # words[k] }
      inserted == SortedRange(firsts, 1, Len(words))
      occurrences(w) == Cardinality({ k \in 1..Len(words) : words[k] = w })
  IN  [ k \in 1..Len(freq) |->
          [word |-> freq[k].word, count |-> freq[k].count + occurrences(freq[k].word)] ]
        \o [ k \in 1..Len(inserted) |->
               [word |-> words[inserted[k]], count |-> occurrences(words[inserted[k]])] ]

\* record_longest without the comparison: the latest page is recorded.
record_latest(longest, url, word_count) == [url |-> url, word_count |-> word_count]

\* record_longest with >= for >: a page of equal word count replaces the record.
record_last_longest(longest, url, word_count) ==
  IF word_count >= longest.word_count
  THEN [url |-> url, word_count |-> word_count]
  ELSE longest

\* if word_count > LONGEST_PAGE["word_count"]: url and word_count are replaced
record_longest(longest, url, word_count) ==
  IF word_count > longest.word_count
  THEN [url |-> url, word_count |-> word_count]
  ELSE longest

\* clean_url of an absolute_url that urljoin returned, nothing when it raised
joined_link(absolute_url) ==
  IF absolute_url.raised = "ValueError" THEN <<>>
  ELSE << normalize(urldefrag(absolute_url.url)) >>

\* One iteration of the loop over soup.find_all("a", href=True), on the stripped
\* href raw: the links appended.
link_of(base, raw) ==
  IF StartsWith(raw, "mailto:") \/ StartsWith(raw, "javascript:") \/ StartsWith(raw, "tel:")
  THEN <<>>
  ELSE joined_link(urljoin(base, raw))

\* The loop from the k-th href on: the links appended, in document order.
RECURSIVE link_loop(_, _, _)
link_loop(base, hrefs, k) ==
  IF k > Len(hrefs) THEN <<>>
  ELSE link_of(base, strip(hrefs[k])) \o link_loop(base, hrefs, k + 1)

\* The links of a supported response; the base is resp.raw_response.url or url.
page_links(url, resp) ==
  link_loop(IF resp.raw_response.url \in {"", None} THEN url ELSE resp.raw_response.url,
            find_all_a_href(resp.raw_response.content.head), 1)

\* The elements of a sequence.
Range(seq) == { seq[k] : k \in 1..Len(seq) }

\* The value a table, a set of <<argument, value>> pairs, holds for key.
Lookup(table, key) == (CHOOSE pair \in table : pair[1] = key)[2]

\* The bodies, token sequences and links of Calls, and tables of the values of the
\* pure functions of the pipeline on them, evaluated once.
Bodies ==
  { Calls[i].resp.raw_response.content :
      i \in { j \in 1..Len(Calls) : ~ unsupported(Calls[j].resp) } }
content_hash_of == { << html, djb2_hash_bytes(html) >> : html \in Bodies }
words_of == { << html, filtered_words(html.head) >> : html \in Bodies }
links_of ==
  { << call, page_links(call.url, call.resp) >> :
      call \in { Calls[i] : i \in { j \in 1..Len(Calls) : ~ unsupported(Calls[j].resp) } } }
fingerprint_table ==
  { << tokens, fingerprint_of(tokens) >> :
      tokens \in Range(Docs) \cup { pair[2] : pair \in words_of } }

\* compare_and_register that adds the fingerprint whatever the loop found.
compare_and_add(fingerprint, fps) ==
  [ret |-> \E seen \in fps : Similar(fingerprint, seen), fps |-> fps \cup {fingerprint}]

\* is_near_duplicate from the comparison loop on, for a non-empty fingerprint.
compare_and_register(fingerprint, fps) ==
  IF \E seen \in fps : Similar(fingerprint, seen) THEN [ret |-> TRUE, fps |-> fps]
  ELSE [ret |-> FALSE, fps |-> fps \cup {fingerprint}]

\* check_fingerprint without the test of an empty fingerprint.
check_any_fingerprint(fingerprint, fps) == compare_and_register(fingerprint, fps)

\* is_near_duplicate once the fingerprint is computed.
check_fingerprint(fingerprint, fps) ==
  IF fingerprint = {} THEN [ret |-> FALSE, fps |-> fps]
  ELSE compare_and_register(fingerprint, fps)

\* is_near_duplicate(tokens) run to completion on the registry fps: its return value
\* and the registry it leaves.
is_near_duplicate(tokens, fps) ==
  IF Len(tokens) < MIN_TOKENS THEN [ret |-> FALSE, fps |-> fps]
  ELSE check_fingerprint(Lookup(fingerprint_table, tokens), fps)

\* What extract_next_links returns and leaves in the shared structures; gate names
\* the return statement taken.
Return(gate, links, hashes, fps, unique, freq, longest) ==
  [gate |-> gate, links |-> links, CONTENT_HASHES |-> hashes,
   NEAR_DUPLICATE_FINGERPRINTS |-> fps, TOTAL_UNIQUE_PAGES |-> unique,
   WORD_FREQUENCIES |-> freq, LONGEST_PAGE |-> longest]

\* extract_next_links from the near-duplicate check on; near is what
\* is_near_duplicate(words) returned and left.
admit_novel(url, resp, words, near, hashes, unique, freq, longest) ==
  IF near.ret
  THEN Return("near_duplicate", {}, hashes, near.fps, unique, freq, longest)
  ELSE Return("admitted", Range(Lookup(links_of, [url |-> url, resp |-> resp])), hashes, near.fps,
              unique \cup {resp.raw_response.url}, update(freq, words),
              record_longest(longest, resp.raw_response.url, Len(words)))

\* admit_words with the near-duplicate check made before the large-file rule.
admit_words_near_first(url, resp, words, hashes, fps, unique, freq, longest) ==
  IF too_few_words(Len(words))
  THEN Return("too_few_words", {}, hashes, fps, unique, freq, longest)
  ELSE IF sparse_large(Len(words), content_len(resp.raw_response.content))
  THEN Return("sparse_large", {}, hashes, is_near_duplicate(words, fps).fps, unique, freq,
              longest)
  ELSE admit_novel(url, resp, words, is_near_duplicate(words, fps), hashes, unique, freq,
                   longest)

\* extract_next_links from the word-count rules on.
admit_words(url, resp, words, hashes, fps, unique, freq, longest) ==
  IF too_few_words(Len(words))
  THEN Return("too_few_words", {}, hashes, fps, unique, freq, longest)
  ELSE IF sparse_large(Len(words), content_len(resp.raw_response.content))
  THEN Return("sparse_large", {}, hashes, fps, unique, freq, longest)
  ELSE admit_novel(url, resp, words, is_near_duplicate(words, fps), hashes, unique, freq,
                   longest)

\* admit_content without CONTENT_HASHES.add(content_hash).
admit_content_unhashed(url, resp, content_hash, hashes, fps, unique, freq, longest) ==
  IF content_hash \in hashes
  THEN Return("exact_duplicate", {}, hashes, fps, unique, freq, longest)
  ELSE admit_words(url, resp, Lookup(words_of, resp.raw_response.content), hashes, fps,
                   unique, freq, longest)

\* extract_next_links from the exact-duplicate check on.
admit_content(url, resp, content_hash, hashes, fps, unique, freq, longest) ==
  IF content_hash \in hashes
  THEN Return("exact_duplicate", {}, hashes, fps, unique, freq, longest)
  ELSE admit_words(url, resp, Lookup(words_of, resp.raw_response.content),
                   hashes \cup {content_hash}, fps, unique, freq, longest)

\* extract_next_links(url, resp) on the given shared structures; links is set(links).
extract_next_links(url, resp, hashes, fps, unique, freq, longest) ==
  IF unsupported(resp)
  THEN Return("unsupported", {}, hashes, fps, unique, freq, longest)
  ELSE IF not_html(content_type(resp))
  THEN Return("content_type", {}, hashes, fps, unique, freq, longest)
  ELSE admit_content(url, resp, Lookup(content_hash_of, resp.raw_response.content), hashes, fps,
                     unique, freq, longest)

\* list(S): the orders in which a set can be listed.
Orders(S) ==
  { order \in [1..Cardinality(S) -> S] :
      \A j, k \in 1..Cardinality(S) : order[j] = order[k] => j = k }

\* URLs given to is_valid directly.
Urls ==
  << "https://www.ics.uci.edu/about", "http://[::1", "https://www.ics.uci.edu/a#top",
     "https://www.google.com/", "https://www.cs.uci.edu/wiki?do=edit",
     "https://www.stat.uci.edu/x.pdf", "https://www.ics.uci.edu]/a",
     "https://www.informatics.uci.edu/events/2024-01-15",
     "https://www.ics.uci.edu/", "https://gitlab.ics.uci.edu/group/project",
     "https://www.ics.uci.edu/events/2024-01-15", "ftp://www.ics.uci.edu/pub",
     "https://ics.uci.edu/about", "https://www.ics.uci.edu/blog/2024/01/15/post",
     "https://www.ics.uci.edu/archive/2024-01", "https://www.ics.uci.edu/cal?date=2024-01-15",
     "HTTPS://WWW.ICS.UCI.EDU/Slides.PDF", "https://www.ics.uci.edu/search?q=timeline",
     "https://www.ics.uci.edu/news?tribe_bar=1", "https://www.ics.uci.edu/DAY/2024-01-15",
     "https://www.stat.uci.edu/~user/page.html" >>

\* k parameters with k distinct keys: kaa=1&kab=1&...
ManyParams(k) ==
  LET keys == TwoLetterDoc(k)
  IN  join("&", [ i \in 1..k |-> "k" \o keys[i] \o "=1" ])

\* Query strings given to valid_query as the query of a parsed URL.
Queries ==
  << "", "do=edit", "do=", "q=web", "x=1&image=a", "C=N&O=D", "c=n", "share=facebook",
     "page=2&sort=asc", "rev=3&page=2", ManyParams(101), ManyParams(100),
     join("&", Repeat(<<"x=1">>, 101)), "page=2&tab_details=view" >>

\* valid_query(urlparse(url)) for a URL with each of the queries.
query_valid_of ==
  { << query, valid_query(urlparse("https://www.ics.uci.edu/p?" \o query)) >> :
      query \in Range(Queries) }

\* The links the pages of Calls can yield, and is_valid and the host of each.
CandidateLinks == UNION { Range(pair[2]) : pair \in links_of }
valid_of == { << url, is_valid(url) >> : url \in CandidateLinks \cup Range(Urls) }
host_of == { << link, hostname(urlparse(link)) >> : link \in CandidateLinks }
Hosts == { pair[2] : pair \in host_of }

\* The first position at which is_valid raised, 0 if it raised nowhere; checked[k]
\* is what is_valid answered on links[k].
first_raised(checked) ==
  IF \E k \in 1..Len(checked) : checked[k].raised # ""
  THEN CHOOSE k \in 1..Len(checked) :
         checked[k].raised # "" /\ \A j \in 1..(k - 1) : checked[j].raised = ""
  ELSE 0

\* valid_links without the filter: every link is kept.
every_link(links, keep) == links

\* [link for link in links if is_valid(link)]
valid_only(links, keep) == [ j \in 1..Len(keep) |-> links[keep[j]] ]

\* count_subdomains that stops after the first link.
count_first_link(valid_links, subdomains) ==
  [ host \in DOMAIN subdomains |->
      subdomains[host]
        \cup { link \in Range(SubSeq(valid_links, 1, 1)) :
                 Lookup(host_of, link) = host /\ EndsWith(host, ".uci.edu") } ]

\* The loop of scraper over valid_links: SUBDOMAIN_PAGE_COUNT[host].add(link) for
\* the links whose host ends with .uci.edu
count_subdomains(valid_links, subdomains) ==
  [ host \in DOMAIN subdomains |->
      subdomains[host]
        \cup { link \in Range(valid_links) :
                 Lookup(host_of, link) = host /\ EndsWith(host, ".uci.edu") } ]

\* scraper once the list comprehension has run: the exception that leaves it, or
\* the list returned and SUBDOMAIN_PAGE_COUNT.
scraper_outcome(failing, checked, valid_links, subdomains) ==
  IF failing # 0
  THEN [raised |-> checked[failing].raised, valid_links |-> <<>>, subdomains |-> subdomains]
  ELSE [raised |-> "", valid_links |-> valid_links,
        subdomains |-> count_subdomains(valid_links, subdomains)]

scraper_checked(links, checked, subdomains) ==
  scraper_outcome(first_raised(checked), checked,
                  valid_only(links, SortedRange({ k \in 1..Len(links) : checked[k].value },
                                                1, Len(links))),
                  subdomains)

\* scraper after extract_next_links returned the list links.
scraper_links(links, subdomains) ==
  scraper_checked(links, [ k \in 1..Len(links) |-> Lookup(valid_of, links[k]) ], subdomains)

\* str(n) of a natural number, as an f-string formats it
RECURSIVE str(_)
str(n) ==
  IF n < 10 THEN CharAt("0123456789", n + 1)
  ELSE str(n \div 10) \o CharAt("0123456789", (n % 10) + 1)

\* a < b on strings: the order sorted() puts host names in
StrLess(a, b) ==
  \E i \in 1..Len(b) :
    /\ \A j \in 1..(i - 1) : j <= Len(a) /\ CharAt(a, j) = CharAt(b, j)
    /\ i > Len(a) \/ ord(CharAt(a, i)) < ord(CharAt(b, i))

\* sorted(keys)
sorted(keys) ==
  [ k \in 1..Cardinality(keys) |->
      CHOOSE key \in keys : Cardinality({ other \in keys : StrLess(other, key) }) = k - 1 ]

\* most_common with every entry, whatever n is.
most_common_uncut(freq, n) ==
  [ k \in 1..Len(freq) |->
      freq[CHOOSE e \in 1..Len(freq) :
             Cardinality({ d \in 1..Len(freq) :
                             \/ freq[d].count > freq[e].count
                             \/ freq[d].count = freq[e].count /\ d < e }) = k - 1] ]

\* WORD_FREQUENCIES.most_common(n): the n entries of highest count, highest first,
\* entries of equal count in the order of the Counter.
most_common(freq, n) ==
  [ k \in 1..(IF Len(freq) < n THEN Len(freq) ELSE n) |->
      freq[CHOOSE e \in 1..Len(freq) :
             Cardinality({ d \in 1..Len(freq) :
                             \/ freq[d].count > freq[e].count
                             \/ freq[d].count = freq[e].count /\ d < e }) = k - 1] ]

\* SUBDOMAIN_PAGE_COUNT.keys(): a host is a key once a link was added under it.
keys_of(subdomains) == { host \in DOMAIN subdomains : subdomains[host] # {} }

\* The words written per report: most_common(50)
TOP_WORDS == 50

\* The lines generate_report writes, each without its newline.
report_lines(unique, common, longest, all_subdomains, subdomains) ==
  << "Unique pages: " \o str(Cardinality(unique)),
     "Longest word count url: " \o longest.url,
     "Longest word count: " \o str(longest.word_count) >>
    \o [ k \in 1..Len(common) |-> common[k].word \o ": " \o str(common[k].count) ]
    \o << "Total subdomains: " \o str(Len(all_subdomains)) >>
    \o [ k \in 1..Len(all_subdomains) |->
           all_subdomains[k] \o ": " \o str(Cardinality(subdomains[all_subdomains[k]])) ]

(***************************************************************************)
(* CrawlerStats (utils/stats.py)                                           *)
(*                                                                         *)
(* A CrawlerStats object is a record of its four attributes.               *)
(* page_word_counts is a dict, here a sequence of [url, word_count] in the *)
(* order of first insertion; all_words is a Counter as WORD_FREQUENCIES;   *)
(* subdomain_counts reads {} for a missing key.                            *)
(***************************************************************************)

\* STOP_WORDS of utils/stats.py holds the words of STOPWORDS.
STOP_WORDS == STOPWORDS

\* script.decompose() for soup(["script", "style"]), then soup.get_text(): the text
\* nodes outside script and style elements, joined without a separator.
decomposed_text(content) ==
  LET spans == TagSpans(content)
      tag(k) == SubSeq(content, spans[k][1] + 1, spans[k][2] - 1)
      InTag(i) == \E k \in 1..Len(spans) : spans[k][1] <= i /\ i <= spans[k][2]
      Decomposed(i) ==
        \E j \in 1..Len(spans) : \E name \in {"script", "style"} :
          /\ tag(j) = name \/ StartsWith(tag(j), name \o " ")
          /\ spans[j][2] < i
          /\ \A k \in (j + 1)..Len(spans) : tag(k) = "/" \o name => i < spans[k][1]
  IN  JoinChars([ i \in 1..Len(content) |->
                    IF InTag(i) \/ Decomposed(i) THEN "" ELSE CharAt(content, i) ],
                1, Len(content))

NotStopWord(w) == w \notin STOP_WORDS /\ Len(w) > 1

\* re.findall(r'\b[a-zA-Z]+\b', text.lower()) filtered by STOP_WORDS and len(w) > 1:
\* the runs of one letter go with the filter, the others are those of tokenize.
stats_filtered_words(content) == SelectSeq(tokenize(decomposed_text(content)), NotStopWord)

\* self.page_word_counts[url] = word_count
set_word_count(page_word_counts, url, word_count) ==
  IF \E k \in 1..Len(page_word_counts) : page_word_counts[k].url = url
  THEN [ k \in 1..Len(page_word_counts) |->
           IF page_word_counts[k].url = url
           THEN [url |-> url, word_count |-> word_count]
           ELSE page_word_counts[k] ]
  ELSE Append(page_word_counts, [url |-> url, word_count |-> word_count])

\* add_page from "if content:" on; words are the filtered words of the content.
add_content(self, url, content, words) ==
  IF content = "" THEN self
  ELSE [self EXCEPT !.page_word_counts = set_word_count(@, url, Len(words)),
                    !.all_words = update(@, words)]

\* add_page after self.unique_pages.add(url), parsed being urlparse(url).
add_parsed(self, url, content, parsed) ==
  IF parsed.raised # "" THEN self
  ELSE add_content(IF parsed.netloc # ""
                   THEN [self EXCEPT !.subdomain_counts[parsed.netloc] = @ \cup {url}]
                   ELSE self,
                   url, content, stats_filtered_words(content))

\* CrawlerStats.add_page(url, content): the object it leaves.
add_page(self, url, content) ==
  add_parsed([self EXCEPT !.unique_pages = @ \cup {url}], url, content, urlparse(url))

\* CrawlerStats.get_longest_page(): max over the dict returns the first key, in
\* insertion order, of the greatest word count.
get_longest_page(self) ==
  IF self.page_word_counts = <<>> THEN << None, 0 >>
  ELSE LET first == CHOOSE k \in 1..Len(self.page_word_counts) :
                      /\ \A j \in 1..Len(self.page_word_counts) :
                           self.page_word_counts[j].word_count
                             <= self.page_word_counts[k].word_count
                      /\ \A j \in 1..(k - 1) :
                           self.page_word_counts[j].word_count
                             < self.page_word_counts[k].word_count
       IN  << self.page_word_counts[first].url, self.page_word_counts[first].word_count >>

\* sum(self.all_words.values())
RECURSIVE total(_)
total(all_words) ==
  IF all_words = <<>> THEN 0 ELSE Head(all_words).count + total(Tail(all_words))

\* The urls and contents given to add_page.
StatsUrls ==
  << "https://www.ics.uci.edu/a", "https://www.stat.uci.edu/b", "page.html" >>
StatsContents ==
  << "", "<p>web crawler design</p>", "<p>The crawler</p>",
     "<script>var x</script><p>web</p><p>crawler</p>" >>
StatsHosts == { urlparse(StatsUrls[u]).netloc : u \in 1..Len(StatsUrls) } \ {""}

\* Strings given to djb2_hash and, as their ASCII bytes, to djb2_hash_bytes: those
\* of test_djb2_hash, the colliding pair, trigrams, and strings long enough for the
\* accumulator to pass 2^64 many times over.
Texts ==
  << "", "a", "mz", "nY", "hello world", "hello worlds", "web crawler python",
     "data mining theory", "~~~~~~~~~~~~~~~~~~~~~~~~", "0123456789:;<=>?@ABCDEFGHIJ",
     "The quick brown fox jumps over the lazy dog", "          ",
     "https://www.ics.uci.edu/a" >>

\* text.encode(): the bytes of an ASCII string are the code points of its
\* characters, as a body without padding.
encode(text) == [head |-> text, pad |-> 0]

(***************************************************************************)
(* State                                                                   *)
(***************************************************************************)

VARIABLES
  CONTENT_HASHES,               \* set of body hashes
  NEAR_DUPLICATE_FINGERPRINTS,  \* set of fingerprints
  TOTAL_UNIQUE_PAGES,           \* set of urls
  WORD_FREQUENCIES,             \* Counter: [word, count] in insertion order
  LONGEST_PAGE,                 \* [url, word_count]
  SUBDOMAIN_PAGE_COUNT,         \* host -> set of links; a missing key reads as {}
  last,                         \* the call that completed last and its outcome
  hashed,                       \* history: the bodies that reached the exact-duplicate gate
  admitted,                     \* history: the calls that were admitted, in their order
  returned,                     \* history: the links scraper returned
  stats,                        \* the CrawlerStats object
  registered,                   \* history: Docs indices whose direct call registered
  probe,                        \* history: the first call of is_valid and its result
  threads                       \* the worker threads and where each is in its call

shared ==
  << CONTENT_HASHES, NEAR_DUPLICATE_FINGERPRINTS, TOTAL_UNIQUE_PAGES, WORD_FREQUENCIES,
     LONGEST_PAGE, SUBDOMAIN_PAGE_COUNT >>

vars == << shared, last, hashed, admitted, returned, stats, registered, probe, threads >>

\* Numbers of calls, token sequences, urls and workers explored.
NumCalls == 13
NumSideCalls == 1
NumDocs == 12
NumUrls == 20
NumQueries == 13
NumReportCalls == 4
NumWorkers == 2
MaxCounted == 4
NumTexts == 12
NumHashDocs == 3

Workers == 1..NumWorkers

idle == [pc |-> "idle", doc |-> 0, call |-> 0, used |-> 0, visited |-> {}, ret |-> ""]

Init ==
  /\ CONTENT_HASHES = {}
  /\ NEAR_DUPLICATE_FINGERPRINTS = {}
  /\ TOTAL_UNIQUE_PAGES = {}
  /\ WORD_FREQUENCIES = <<>>
  /\ LONGEST_PAGE = [url |-> None, word_count |-> 0]
  /\ SUBDOMAIN_PAGE_COUNT = [ host \in Hosts |-> {} ]
  /\ last = [op |-> "none", arg |-> 0, gate |-> "", ret |-> <<>>, value |-> FALSE,
             raised |-> ""]
  /\ hashed = {}
  /\ admitted = <<>>
  /\ returned = {}
  /\ stats = [unique_pages |-> {}, page_word_counts |-> <<>>, all_words |-> <<>>,
              subdomain_counts |-> [ host \in StatsHosts |-> {} ]]
  /\ registered = {}
  /\ probe = [arg |-> 0, raised |-> "", value |-> FALSE, hashes |-> {}]
  /\ threads = [ w \in Workers |-> idle ]

(***************************************************************************)
(* Sequential calls                                                        *)
(***************************************************************************)

\* The least index of a call that carries the body of the i-th call.
body_id(i) ==
  CHOOSE j \in 1..i :
    /\ ~ unsupported(Calls[j].resp)
    /\ Calls[j].resp.raw_response.content = Calls[i].resp.raw_response.content
    /\ \A k \in 1..(j - 1) :
         unsupported(Calls[k].resp)
           \/ Calls[k].resp.raw_response.content # Calls[i].resp.raw_response.content

\* The end of scraper(url, resp) for the i-th call: r is what extract_next_links
\* returned and left, s what the rest of scraper did with the list it returned.
ScraperReturn(i, r, s) ==
  /\ CONTENT_HASHES' = r.CONTENT_HASHES
  /\ NEAR_DUPLICATE_FINGERPRINTS' = r.NEAR_DUPLICATE_FINGERPRINTS
  /\ TOTAL_UNIQUE_PAGES' = r.TOTAL_UNIQUE_PAGES
  /\ WORD_FREQUENCIES' = r.WORD_FREQUENCIES
  /\ LONGEST_PAGE' = r.LONGEST_PAGE
  /\ SUBDOMAIN_PAGE_COUNT' = s.subdomains
  /\ last' = [op |-> "scraper", arg |-> i, gate |-> r.gate, ret |-> s.valid_links,
              value |-> FALSE, raised |-> s.raised]
  /\ hashed' = IF r.gate \in {"unsupported", "content_type"} THEN hashed
               ELSE hashed \cup {body_id(i)}
  /\ admitted' = IF r.gate = "admitted" THEN Append(admitted, i) ELSE admitted
  /\ returned' = returned \cup Range(s.valid_links)
  /\ UNCHANGED << stats, registered, probe, threads >>

\* scraper from the return of extract_next_links on: list(set(links)) in one of its
\* orders.
ScraperLinks(i, r) ==
  \E links \in Orders(r.links) :
    ScraperReturn(i, r, scraper_links(links, SUBDOMAIN_PAGE_COUNT))

\* scraper(url, resp) for the i-th call of Calls.
Scraper(i) ==
  ScraperLinks(i, extract_next_links(Calls[i].url, Calls[i].resp, CONTENT_HASHES,
                                     NEAR_DUPLICATE_FINGERPRINTS, TOTAL_UNIQUE_PAGES,
                                     WORD_FREQUENCIES, LONGEST_PAGE))

\* IsValidReturn for an is_valid that counted the urls it was asked about.
IsValidCounting(u, r) ==
  /\ last' = [op |-> "is_valid", arg |-> u, gate |-> "", ret |-> <<>>,
              value |-> r.value, raised |-> r.raised]
  /\ probe' = IF probe.arg = 0
              THEN [arg |-> u, raised |-> r.raised, value |-> r.value,
                    hashes |-> CONTENT_HASHES]
              ELSE probe
  /\ TOTAL_UNIQUE_PAGES' = TOTAL_UNIQUE_PAGES \cup {Urls[u]}
  /\ UNCHANGED << CONTENT_HASHES, NEAR_DUPLICATE_FINGERPRINTS, WORD_FREQUENCIES,
                  LONGEST_PAGE, SUBDOMAIN_PAGE_COUNT, hashed, admitted, returned, stats, registered,
                  threads >>

\* is_valid(url) for the u-th url of Urls; r is what it returned or raised.
IsValidReturn(u, r) ==
  /\ last' = [op |-> "is_valid", arg |-> u, gate |-> "", ret |-> <<>>,
              value |-> r.value, raised |-> r.raised]
  /\ probe' = IF probe.arg = 0
              THEN [arg |-> u, raised |-> r.raised, value |-> r.value,
                    hashes |-> CONTENT_HASHES]
              ELSE probe
  /\ UNCHANGED << shared, hashed, admitted, returned, stats, registered, threads >>

IsValid(u) == IsValidReturn(u, Lookup(valid_of, Urls[u]))

\* valid_query(parsed) for the q-th query of Queries; r is what it returned.
ValidQueryReturn(q, r) ==
  /\ last' = [op |-> "valid_query", arg |-> q, gate |-> "", ret |-> <<>>,
              value |-> r, raised |-> ""]
  /\ UNCHANGED << shared, hashed, admitted, returned, stats, registered, probe, threads >>

ValidQuery(q) == ValidQueryReturn(q, Lookup(query_valid_of, Queries[q]))

\* is_near_duplicate(tokens) for the d-th token sequence of Docs, run to completion;
\* r is what it returned and left.
NearDuplicateReturn(d, r) ==
  /\ NEAR_DUPLICATE_FINGERPRINTS' = r.fps
  /\ last' = [op |-> "is_near_duplicate", arg |-> d, gate |-> "", ret |-> <<>>,
              value |-> r.ret, raised |-> ""]
  /\ registered' = IF r.fps # NEAR_DUPLICATE_FINGERPRINTS THEN registered \cup {d}
                   ELSE registered
  /\ UNCHANGED << CONTENT_HASHES, TOTAL_UNIQUE_PAGES, WORD_FREQUENCIES, LONGEST_PAGE,
                  SUBDOMAIN_PAGE_COUNT, hashed, admitted, returned, stats, probe, threads >>

NearDuplicate(d) ==
  NearDuplicateReturn(d, is_near_duplicate(Docs[d], NEAR_DUPLICATE_FINGERPRINTS))

\* The crawl: scraper on each response the crawler delivers.
Next == \E i \in 1..NumCalls : Scraper(i)
Spec == Init /\ [][Next]_vars

\* Direct calls of is_near_duplicate, as in test_near_duplicate.
NextND == \E d \in 1..NumDocs : NearDuplicate(d)
SpecND == Init /\ [][NextND]_vars

\* Calls of is_valid and of valid_query between calls of scraper.
NextValid ==
  \/ \E u \in 1..NumUrls : IsValid(u)
  \/ \E q \in 1..NumQueries : ValidQuery(q)
  \/ \E i \in 1..NumSideCalls : Scraper(i)
SpecValid == Init /\ [][NextValid]_vars

\* generate_report(): lines is what it wrote to the report file.
GenerateReportReturn(lines) ==
  /\ last' = [op |-> "generate_report", arg |-> 0, gate |-> "", ret |-> lines,
              value |-> FALSE, raised |-> ""]
  /\ UNCHANGED << shared, hashed, admitted, returned, stats, registered, probe, threads >>

GenerateReport ==
  GenerateReportReturn(report_lines(TOTAL_UNIQUE_PAGES, most_common(WORD_FREQUENCIES, TOP_WORDS),
                                    LONGEST_PAGE, sorted(keys_of(SUBDOMAIN_PAGE_COUNT)),
                                    SUBDOMAIN_PAGE_COUNT))

\* A crawl and reports on it.
NextReport ==
  \/ \E i \in 1..NumReportCalls : Scraper(i)
  \/ GenerateReport
SpecReport == Init /\ [][NextReport]_vars

(***************************************************************************)
(* Concurrent calls of is_near_duplicate                                   *)
(*                                                                         *)
(* The crawler runs scraper on several worker threads.  is_near_duplicate  *)
(* takes no lock: between the steps of one call, the loop over             *)
(* NEAR_DUPLICATE_FINGERPRINTS and the add, other calls run.  A set        *)
(* iterator raises RuntimeError when the set has changed size since the    *)
(* iterator was created.                                                   *)
(***************************************************************************)

\* The token sequences the workers call is_near_duplicate on: Docs indices.
ConcurrentDocs == {1, 3, 9, 10}

\* Worker w calls is_near_duplicate(Docs[d]): lines 246-257, then the iterator of the
\* for loop is created.
Call(w, d) ==
  /\ threads[w].pc = "idle"
  /\ threads' =
       [threads EXCEPT ![w] =
          IF Len(Docs[d]) < MIN_TOKENS \/ Lookup(fingerprint_table, Docs[d]) = {}
          THEN [idle EXCEPT !.pc = "done", !.doc = d, !.ret = "False"]
          ELSE [idle EXCEPT !.pc = "loop", !.doc = d,
                               !.used = Cardinality(NEAR_DUPLICATE_FINGERPRINTS)]]
  /\ UNCHANGED << shared, last, hashed, admitted, returned, stats, registered, probe >>

\* One step of the for loop of worker t on the fingerprint of its tokens: the
\* iterator raises, or is exhausted, or yields a fingerprint not yet visited.
IterateOn(w, t, fingerprint) ==
  /\ \/ /\ Cardinality(NEAR_DUPLICATE_FINGERPRINTS) # t.used
        /\ threads' = [threads EXCEPT ![w] = [t EXCEPT !.pc = "done", !.ret = "RuntimeError"]]
     \/ /\ Cardinality(NEAR_DUPLICATE_FINGERPRINTS) = t.used
        /\ t.visited = NEAR_DUPLICATE_FINGERPRINTS
        /\ threads' = [threads EXCEPT ![w] = [t EXCEPT !.pc = "add"]]
     \/ /\ Cardinality(NEAR_DUPLICATE_FINGERPRINTS) = t.used
        /\ \E seen \in NEAR_DUPLICATE_FINGERPRINTS \ t.visited :
             threads' =
               IF Similar(fingerprint, seen)
               THEN [threads EXCEPT ![w] = [t EXCEPT !.pc = "done", !.ret = "True"]]
               ELSE [threads EXCEPT ![w] = [t EXCEPT !.visited = @ \cup {seen}]]
  /\ UNCHANGED << shared, last, hashed, admitted, returned, stats, registered, probe >>

Iterate(w) ==
  /\ threads[w].pc = "loop"
  /\ IterateOn(w, threads[w], Lookup(fingerprint_table, Docs[threads[w].doc]))

\* NEAR_DUPLICATE_FINGERPRINTS.add(fingerprint); return False
Add(w) ==
  /\ threads[w].pc = "add"
  /\ NEAR_DUPLICATE_FINGERPRINTS' =
       NEAR_DUPLICATE_FINGERPRINTS \cup {Lookup(fingerprint_table, Docs[threads[w].doc])}
  /\ threads' = [threads EXCEPT ![w] = [@ EXCEPT !.pc = "done", !.ret = "False"]]
  /\ UNCHANGED << CONTENT_HASHES, TOTAL_UNIQUE_PAGES, WORD_FREQUENCIES, LONGEST_PAGE,
                  SUBDOMAIN_PAGE_COUNT, last, hashed, admitted, returned, stats, registered,
                  probe >>

NextConc ==
  \/ \E w \in Workers, d \in ConcurrentDocs : Call(w, d)
  \/ \E w \in Workers : Iterate(w)
  \/ \E w \in Workers : Add(w)
SpecConc == Init /\ [][NextConc]_vars

(***************************************************************************)
(* Concurrent calls of scraper                                             *)
(*                                                                         *)
(* extract_next_links takes no lock either: between the test of            *)
(* CONTENT_HASHES and the add, other workers run.  What follows the add    *)
(* is taken as one step here.                                              *)
(***************************************************************************)

\* The calls the workers make: Calls indices.  1 and 4 carry the same body.
ConcurrentCalls == {1, 4, 7, 10, 12}

\* Worker w calls scraper on the i-th call, one no other worker was given:
\* extract_next_links up to the hash of the body, lines 315-325.
Enter(w, i) ==
  /\ threads[w].pc = "idle"
  /\ \A v \in Workers : threads[v].call # i
  /\ threads' =
       [threads EXCEPT ![w] =
          IF unsupported(Calls[i].resp)
          THEN [idle EXCEPT !.pc = "done", !.call = i, !.ret = "unsupported"]
          ELSE IF not_html(content_type(Calls[i].resp))
          THEN [idle EXCEPT !.pc = "done", !.call = i, !.ret = "content_type"]
          ELSE [idle EXCEPT !.pc = "check", !.call = i]]
  /\ UNCHANGED << shared, last, hashed, admitted, returned, stats, registered, probe >>

\* if content_hash in CONTENT_HASHES: return links
CheckHash(w) ==
  /\ threads[w].pc = "check"
  /\ threads' =
       [threads EXCEPT ![w] =
          IF Lookup(content_hash_of, Calls[threads[w].call].resp.raw_response.content)
               \in CONTENT_HASHES
          THEN [@ EXCEPT !.pc = "done", !.ret = "exact_duplicate"]
          ELSE [@ EXCEPT !.pc = "add"]]
  /\ UNCHANGED << shared, last, hashed, admitted, returned, stats, registered, probe >>

\* CONTENT_HASHES.add(content_hash)
AddHash(w) ==
  /\ threads[w].pc = "add"
  /\ CONTENT_HASHES' =
       CONTENT_HASHES
         \cup {Lookup(content_hash_of, Calls[threads[w].call].resp.raw_response.content)}
  /\ threads' = [threads EXCEPT ![w] = [@ EXCEPT !.pc = "parse"]]
  /\ UNCHANGED << NEAR_DUPLICATE_FINGERPRINTS, TOTAL_UNIQUE_PAGES, WORD_FREQUENCIES,
                  LONGEST_PAGE, SUBDOMAIN_PAGE_COUNT, last, hashed, admitted, returned, stats,
                  registered, probe >>

\* The rest of the call of worker w: r is what extract_next_links returned and left
\* from line 330 on, s what scraper did with the list.
ParseReturn(w, r, s) ==
  /\ NEAR_DUPLICATE_FINGERPRINTS' = r.NEAR_DUPLICATE_FINGERPRINTS
  /\ TOTAL_UNIQUE_PAGES' = r.TOTAL_UNIQUE_PAGES
  /\ WORD_FREQUENCIES' = r.WORD_FREQUENCIES
  /\ LONGEST_PAGE' = r.LONGEST_PAGE
  /\ SUBDOMAIN_PAGE_COUNT' = s.subdomains
  /\ threads' = [threads EXCEPT ![w] = [@ EXCEPT !.pc = "done", !.ret = r.gate]]
  /\ admitted' = IF r.gate = "admitted" THEN Append(admitted, threads[w].call) ELSE admitted
  /\ returned' = returned \cup Range(s.valid_links)
  /\ UNCHANGED << CONTENT_HASHES, last, hashed, stats, registered, probe >>

ParseLinks(w, r) ==
  \E links \in Orders(r.links) :
    ParseReturn(w, r, scraper_links(links, SUBDOMAIN_PAGE_COUNT))

Parse(w) ==
  /\ threads[w].pc = "parse"
  /\ ParseLinks(w, admit_words(Calls[threads[w].call].url, Calls[threads[w].call].resp,
                               Lookup(words_of,
                                      Calls[threads[w].call].resp.raw_response.content),
                               CONTENT_HASHES, NEAR_DUPLICATE_FINGERPRINTS,
                               TOTAL_UNIQUE_PAGES, WORD_FREQUENCIES, LONGEST_PAGE))

NextScrape ==
  \/ \E w \in Workers, i \in ConcurrentCalls : Enter(w, i)
  \/ \E w \in Workers : CheckHash(w)
  \/ \E w \in Workers : AddHash(w)
  \/ \E w \in Workers : Parse(w)
SpecScrape == Init /\ [][NextScrape]_vars


(***************************************************************************)
(* Concurrent updates of LONGEST_PAGE                                      *)
(*                                                                         *)
(* The comparison of line 348 and the two assignments of lines 349 and 350 *)
(* are separate steps of a worker; what precedes and what follows them is  *)
(* taken as one step each.                                                 *)
(***************************************************************************)

\* The calls the workers make: Calls indices of pages of 60, 60 and 120 words.
ConcurrentPages == {1, 2, 3}

\* Worker w calls scraper on the i-th call, one no other worker was given:
\* extract_next_links up to WORD_FREQUENCIES.update(words), lines 315-347; r is what
\* it would return and leave.
GatesReturn(w, i, r) ==
  /\ CONTENT_HASHES' = r.CONTENT_HASHES
  /\ NEAR_DUPLICATE_FINGERPRINTS' = r.NEAR_DUPLICATE_FINGERPRINTS
  /\ TOTAL_UNIQUE_PAGES' = r.TOTAL_UNIQUE_PAGES
  /\ WORD_FREQUENCIES' = r.WORD_FREQUENCIES
  /\ threads' =
       [threads EXCEPT ![w] =
          IF r.gate = "admitted" THEN [idle EXCEPT !.pc = "compare", !.call = i]
          ELSE [idle EXCEPT !.pc = "done", !.call = i, !.ret = r.gate]]
  /\ admitted' = IF r.gate = "admitted" THEN Append(admitted, i) ELSE admitted
  /\ UNCHANGED << LONGEST_PAGE, SUBDOMAIN_PAGE_COUNT, last, hashed, returned, stats,
                  registered, probe >>

Gates(w, i) ==
  /\ threads[w].pc = "idle"
  /\ \A v \in Workers : threads[v].call # i
  /\ GatesReturn(w, i, extract_next_links(Calls[i].url, Calls[i].resp, CONTENT_HASHES,
                                          NEAR_DUPLICATE_FINGERPRINTS, TOTAL_UNIQUE_PAGES,
                                          WORD_FREQUENCIES, LONGEST_PAGE))

\* if word_count > LONGEST_PAGE["word_count"]:
CompareLongest(w) ==
  /\ threads[w].pc = "compare"
  /\ threads' =
       [threads EXCEPT ![w] =
          IF Len(Lookup(words_of, Calls[threads[w].call].resp.raw_response.content))
               > LONGEST_PAGE.word_count
          THEN [@ EXCEPT !.pc = "url"]
          ELSE [@ EXCEPT !.pc = "links"]]
  /\ UNCHANGED << shared, last, hashed, admitted, returned, stats, registered, probe >>

\* LONGEST_PAGE["url"] = resp.raw_response.url
StoreUrl(w) ==
  /\ threads[w].pc = "url"
  /\ LONGEST_PAGE' =
       [LONGEST_PAGE EXCEPT !.url = Calls[threads[w].call].resp.raw_response.url]
  /\ threads' = [threads EXCEPT ![w] = [@ EXCEPT !.pc = "count"]]
  /\ UNCHANGED << CONTENT_HASHES, NEAR_DUPLICATE_FINGERPRINTS, TOTAL_UNIQUE_PAGES,
                  WORD_FREQUENCIES, SUBDOMAIN_PAGE_COUNT, last, hashed, admitted, returned,
                  stats, registered, probe >>

\* LONGEST_PAGE["word_count"] = word_count
StoreCount(w) ==
  /\ threads[w].pc = "count"
  /\ LONGEST_PAGE' =
       [LONGEST_PAGE EXCEPT
          !.word_count =
            Len(Lookup(words_of, Calls[threads[w].call].resp.raw_response.content))]
  /\ threads' = [threads EXCEPT ![w] = [@ EXCEPT !.pc = "links"]]
  /\ UNCHANGED << CONTENT_HASHES, NEAR_DUPLICATE_FINGERPRINTS, TOTAL_UNIQUE_PAGES,
                  WORD_FREQUENCIES, SUBDOMAIN_PAGE_COUNT, last, hashed, admitted, returned,
                  stats, registered, probe >>

\* The link loop of lines 352-364 and the rest of scraper; s is what scraper did
\* with the list extract_next_links returned.
LinksReturn(w, s) ==
  /\ SUBDOMAIN_PAGE_COUNT' = s.subdomains
  /\ returned' = returned \cup Range(s.valid_links)
  /\ threads' = [threads EXCEPT ![w] = [@ EXCEPT !.pc = "done", !.ret = "admitted"]]
  /\ UNCHANGED << CONTENT_HASHES, NEAR_DUPLICATE_FINGERPRINTS, TOTAL_UNIQUE_PAGES,
                  WORD_FREQUENCIES, LONGEST_PAGE, last, hashed, admitted, stats, registered,
                  probe >>

Links(w) ==
  /\ threads[w].pc = "links"
  /\ \E links \in Orders(Range(Lookup(links_of, Calls[threads[w].call]))) :
       LinksReturn(w, scraper_links(links, SUBDOMAIN_PAGE_COUNT))

NextLongest ==
  \/ \E w \in Workers, i \in ConcurrentPages : Gates(w, i)
  \/ \E w \in Workers : CompareLongest(w)
  \/ \E w \in Workers : StoreUrl(w)
  \/ \E w \in Workers : StoreCount(w)
  \/ \E w \in Workers : Links(w)
SpecLongest == Init /\ [][NextLongest]_vars

(***************************************************************************)
(* Calls of CrawlerStats                                                   *)
(***************************************************************************)

\* stats.add_page(url, content) for the u-th url; after is the object it leaves.
AddPageReturn(u, after) ==
  /\ stats' = after
  /\ last' = [op |-> "add_page", arg |-> u, gate |-> "", ret |-> <<>>, value |-> FALSE,
              raised |-> ""]
  /\ UNCHANGED << shared, hashed, admitted, returned, registered, probe, threads >>

AddPage(u, c) ==
  /\ total(stats.all_words) < MaxCounted
  /\ AddPageReturn(u, add_page(stats, StatsUrls[u], StatsContents[c]))

\* stats.get_longest_page(): longest is the pair it returns.
GetLongestPageReturn(longest) ==
  /\ last' = [op |-> "get_longest_page", arg |-> 0, gate |-> "", ret |-> longest,
              value |-> FALSE, raised |-> ""]
  /\ UNCHANGED << shared, hashed, admitted, returned, stats, registered, probe, threads >>

GetLongestPage == GetLongestPageReturn(get_longest_page(stats))

NextStats ==
  \/ \E u \in 1..Len(StatsUrls), c \in 1..Len(StatsContents) : AddPage(u, c)
  \/ GetLongestPage
SpecStats == Init /\ [][NextStats]_vars

(***************************************************************************)
(* Calls of the hash functions                                             *)
(***************************************************************************)

\* djb2_hash(text) and djb2_hash_bytes(data) for the t-th string of Texts; digits is
\* what was returned, as base-256 digits.
HashReturn(op, t, digits) ==
  /\ last' = [op |-> op, arg |-> t, gate |-> "", ret |-> digits, value |-> FALSE,
              raised |-> ""]
  /\ UNCHANGED << shared, hashed, admitted, returned, stats, registered, probe, threads >>

Djb2Hash(t) == HashReturn("djb2_hash", t, djb2_hash(Texts[t]))

Djb2HashBytes(t) == HashReturn("djb2_hash_bytes", t, djb2_hash_bytes(encode(Texts[t])))

\* Calls of the hash functions between calls of is_near_duplicate, which hashes its
\* trigrams with djb2_hash.
NextHash ==
  \/ \E t \in 1..NumTexts : Djb2Hash(t)
  \/ \E t \in 1..NumTexts : Djb2HashBytes(t)
  \/ \E d \in 1..NumHashDocs : NearDuplicate(d)
SpecHash == Init /\ [][NextHash]_vars

(***************************************************************************)
(* Properties                                                              *)
(*                                                                         *)
(* The properties state what a call must do from the catalogue of calls    *)
(* and the state before it, with the thresholds written out, not through   *)
(* the operators of the pipeline.                                          *)
(***************************************************************************)

\* intersection size / union size >= 0.95, for sets of which one is not empty
Jaccard95(a, b) ==
  /\ Cardinality(a \cup b) > 0
  /\ 100 * Cardinality(a \cap b) >= 95 * Cardinality(a \cup b)

\* The sampled fingerprint of a token sequence.
Fingerprint(tokens) == Lookup(fingerprint_table, tokens)

\* resp is None, resp.status is not 200, resp.raw_response is None, or the
\* Content-Type header does not contain text/html.
UnsupportedCall(i) ==
  \/ Calls[i].resp.none
  \/ Calls[i].resp.status # 200
  \/ Calls[i].resp.raw_response.none
  \/ "Content-Type" \notin DOMAIN Calls[i].resp.raw_response.headers
  \/ ~ Contains(lower(Calls[i].resp.raw_response.headers["Content-Type"]), "text/html")

\* The raw body and the filtered words of the i-th call, a supported one.
BodyOf(i) == Calls[i].resp.raw_response.content
WordsOf(i) == Lookup(words_of, BodyOf(i))

\* The i-th call is rejected at one of the gates of extract_next_links, in the state
\* it is made in.
RejectedCall(i) ==
  \/ UnsupportedCall(i)
  \/ Lookup(content_hash_of, BodyOf(i)) \in CONTENT_HASHES
  \/ Len(WordsOf(i)) < 50
  \/ Len(WordsOf(i)) < 100 /\ content_len(BodyOf(i)) > 1000000
  \/ /\ Len(WordsOf(i)) >= 10
     /\ \E seen \in NEAR_DUPLICATE_FINGERPRINTS : Jaccard95(Fingerprint(WordsOf(i)), seen)

\* C1: in a sequential run over status-200 text/html responses, the first call that
\* carries a given raw body passes the exact-duplicate gate, and is recorded in
\* TOTAL_UNIQUE_PAGES when it passes the later gates too; every later call with a
\* byte-identical body is rejected at the exact-duplicate gate with an empty list and
\* adds no url to TOTAL_UNIQUE_PAGES.
C1_FirstPassesLaterRejected ==
  [][ (last'.op = "scraper" /\ ~ UnsupportedCall(last'.arg)) =>
        IF body_id(last'.arg) \in hashed
        THEN /\ last'.gate = "exact_duplicate"
             /\ last'.ret = <<>>
             /\ TOTAL_UNIQUE_PAGES' = TOTAL_UNIQUE_PAGES
        ELSE /\ last'.gate # "exact_duplicate"
             /\ last'.gate = "admitted" =>
                  Calls[last'.arg].resp.raw_response.url \in TOTAL_UNIQUE_PAGES' ]_vars

\* C2: a call rejected at any gate of extract_next_links makes scraper return an
\* empty list and leaves TOTAL_UNIQUE_PAGES, WORD_FREQUENCIES, LONGEST_PAGE and
\* SUBDOMAIN_PAGE_COUNT unchanged.
C2_RejectionLeavesStatistics ==
  [][ (last'.op = "scraper" /\ (RejectedCall(last'.arg) \/ last'.gate # "admitted")) =>
        /\ last'.ret = <<>>
        /\ last'.raised = ""
        /\ UNCHANGED << TOTAL_UNIQUE_PAGES, WORD_FREQUENCIES, LONGEST_PAGE,
                        SUBDOMAIN_PAGE_COUNT >> ]_vars

\* A page was rejected as a near duplicate after pages had been recorded.
C2_Witness ==
  /\ last.op = "scraper"
  /\ last.gate = "near_duplicate"
  /\ last.ret = <<>>
  /\ TOTAL_UNIQUE_PAGES # {}

\* C3: on an unsupported response (resp None, status not 200, raw_response None, no
\* text/html in Content-Type) the call returns an empty list, raises nothing and
\* leaves every shared structure unchanged, CONTENT_HASHES and
\* NEAR_DUPLICATE_FINGERPRINTS included.
C3_UnsupportedLeavesEverything ==
  [][ (last'.op = "scraper" /\ UnsupportedCall(last'.arg)) =>
        /\ last'.ret = <<>>
        /\ last'.raised = ""
        /\ UNCHANGED shared ]_vars

\* A status-404 response that carries an html body was handled after other pages had
\* been hashed and registered.
C3_Witness ==
  /\ last.op = "scraper"
  /\ UnsupportedCall(last.arg)
  /\ ~ Calls[last.arg].resp.none
  /\ Calls[last.arg].resp.status = 404
  /\ CONTENT_HASHES # {}
  /\ NEAR_DUPLICATE_FINGERPRINTS # {}

\* C4: of the concurrent calls of is_near_duplicate on token sequences whose
\* fingerprints are pairwise similar, at most one returns False and at most one of
\* the fingerprints is registered, in every interleaving.
C4_CheckThenInsertAtomic ==
  \A v \in Workers : \A w \in Workers \ {v} :
    ( /\ threads[v].pc # "idle"
      /\ threads[w].pc # "idle"
      /\ Jaccard95(Fingerprint(Docs[threads[v].doc]), Fingerprint(Docs[threads[w].doc])) )
    => /\ ~ (threads[v].ret = "False" /\ threads[w].ret = "False")
       /\ Cardinality({ Fingerprint(Docs[threads[v].doc]),
                        Fingerprint(Docs[threads[w].doc]) }
                      \cap NEAR_DUPLICATE_FINGERPRINTS) <= 1


\* Some registered fingerprint has Jaccard similarity >= 0.95 with that of Docs[d].
MatchesRegistered(d) ==
  \E seen \in NEAR_DUPLICATE_FINGERPRINTS : Jaccard95(Fingerprint(Docs[d]), seen)

\* What every call of is_near_duplicate does to NEAR_DUPLICATE_FINGERPRINTS: nothing
\* when it returns True, exactly its fingerprint added when it returns False with at
\* least 10 tokens and a non-empty fingerprint, and nothing ever removed.
RegistrationEffect(d) ==
  /\ last'.value => NEAR_DUPLICATE_FINGERPRINTS' = NEAR_DUPLICATE_FINGERPRINTS
  /\ (~ last'.value /\ Len(Docs[d]) >= 10 /\ Fingerprint(Docs[d]) # {}) =>
       NEAR_DUPLICATE_FINGERPRINTS' = NEAR_DUPLICATE_FINGERPRINTS \cup {Fingerprint(Docs[d])}
  /\ NEAR_DUPLICATE_FINGERPRINTS \subseteq NEAR_DUPLICATE_FINGERPRINTS'

\* C5: is_near_duplicate returns True exactly when the fingerprint is non-empty and
\* its Jaccard similarity with some registered fingerprint is >= 0.95; True leaves
\* the registry unchanged, False with at least 10 tokens and a non-empty fingerprint
\* adds exactly that fingerprint, and no call removes one.
C5_TrueIffSimilar ==
  [][ last'.op = "is_near_duplicate" =>
        /\ last'.value <=> (Fingerprint(Docs[last'.arg]) # {} /\ MatchesRegistered(last'.arg))
        /\ RegistrationEffect(last'.arg) ]_vars

\* C5 for the sequences the comparison is made for: with at least 10 tokens,
\* is_near_duplicate returns True exactly when the fingerprint is non-empty and
\* similar to a registered one; with fewer it returns False; the effects on the
\* registry are those of C5.
C5_TrueIffSimilarAndLong ==
  [][ last'.op = "is_near_duplicate" =>
        /\ last'.value <=> ( /\ Len(Docs[last'.arg]) >= 10
                             /\ Fingerprint(Docs[last'.arg]) # {}
                             /\ MatchesRegistered(last'.arg) )
        /\ RegistrationEffect(last'.arg) ]_vars

\* A call returned True on a fingerprint that is not registered itself: one at
\* similarity 19/20, exactly the threshold, from a registered fingerprint.
C5_Witness ==
  /\ last.op = "is_near_duplicate"
  /\ last.value
  /\ Fingerprint(Docs[last.arg]) \notin NEAR_DUPLICATE_FINGERPRINTS
  /\ \E seen \in NEAR_DUPLICATE_FINGERPRINTS :
       /\ Cardinality(Fingerprint(Docs[last.arg]) \cap seen) = 19
       /\ Cardinality(Fingerprint(Docs[last.arg]) \cup seen) = 20

\* Docs[e] is Docs[d] with every occurrence of one word of its 6-word pattern
\* replaced by another word: 60 tokens each.
OneWordReplaced(d, e) ==
  /\ Len(Docs[d]) = 60
  /\ Len(Docs[e]) = 60
  /\ \A k \in 1..54 : Docs[d][k + 6] = Docs[d][k] /\ Docs[e][k + 6] = Docs[e][k]
  /\ Cardinality({ k \in 1..6 : Docs[d][k] # Docs[e][k] }) = 1

\* C6: once a token sequence is registered, a sequence that differs from it by one
\* word of the 6-word pattern repeated 10 times is judged near-duplicate.
C6_OneWordApartIsNearDuplicate ==
  ( /\ last.op = "is_near_duplicate"
    /\ \E d \in registered : OneWordReplaced(d, last.arg) )
  => last.value

\* The words of a token sequence.
VocabularyOf(d) == Range(Docs[d])

\* C7: a token sequence whose vocabulary is disjoint from that of every registered
\* sequence is not judged near-duplicate.
C7_DisjointVocabularyIsNovel ==
  ( /\ last.op = "is_near_duplicate"
    /\ \A d \in registered : VocabularyOf(d) \cap VocabularyOf(last.arg) = {} )
  => ~ last.value

\* C8: over any sequence of calls of scraper, no url leaves TOTAL_UNIQUE_PAGES, its
\* size never decreases, and LONGEST_PAGE["word_count"] never decreases.
C8_StatisticsGrow ==
  [][ /\ TOTAL_UNIQUE_PAGES \subseteq TOTAL_UNIQUE_PAGES'
      /\ Cardinality(TOTAL_UNIQUE_PAGES') >= Cardinality(TOTAL_UNIQUE_PAGES)
      /\ LONGEST_PAGE'.word_count >= LONGEST_PAGE.word_count ]_vars

\* A page with fewer words than the longest one was admitted and recorded.
C8_Witness ==
  /\ last.op = "scraper"
  /\ last.gate = "admitted"
  /\ Calls[last.arg].resp.raw_response.url \in TOTAL_UNIQUE_PAGES
  /\ Len(WordsOf(last.arg)) < LONGEST_PAGE.word_count

\* C9: is_valid returns False on every string it cannot parse and lets no exception
\* reach its caller, and scraper is not aborted by a malformed link.
C9_FailsClosed ==
  /\ last.op = "is_valid" => (last.raised = "" /\ last.value \in BOOLEAN)
  /\ last.op = "scraper" => last.raised = ""

PathMarkers ==
  {"timeline", "ml/datasets", "/events/", "tribe", "wp-login", "/auth/", "/login",
   "/register", "ical", "eppstein/pix", "doku.php", "dataset", "sld"}
QueryMarkers == {"tribe", "ical"}

\* /YYYY/MM/DD, /day/YYYY-MM-DD and a trailing /YYYY-MM in the path, date=YYYY-MM-DD
\* in the query.
DatePattern(path, query) ==
  \/ \E i \in 1..Len(path) : MatchAt(path, i, "/####/##/##")
  \/ \E i \in 1..Len(path) : MatchAt(path, i, "/day/####-##-##")
  \/ MatchAt(path, Len(path) - 7, "/####-##")
  \/ \E i \in 1..Len(query) : MatchAt(query, i, "date=####-##-##")

\* The conditions under which a URL is eligible, on its parsed components.
EligibleParsed(parsed) ==
  /\ parsed.raised = ""
  /\ parsed.scheme = "http" \/ parsed.scheme = "https"
  /\ parsed.fragment = ""
  /\ \E suffix \in {".ics.uci.edu", ".cs.uci.edu", ".informatics.uci.edu", ".stat.uci.edu"} :
       EndsWith(lower(hostname(parsed)), suffix)
  /\ lower(hostname(parsed)) # "gitlab.ics.uci.edu"
  /\ \A marker \in PathMarkers : ~ Contains(lower(parsed.path), marker)
  /\ \A marker \in QueryMarkers : ~ Contains(lower(parsed.query), marker)
  /\ ~ DatePattern(parsed.path, parsed.query)
  /\ \A ext \in DENIED_EXTENSIONS : ~ EndsWith(lower(parsed.path), "." \o ext)
  /\ valid_query(parsed)

\* The eligible URLs of Urls.
Eligible == { url \in Range(Urls) : EligibleParsed(urlparse(url)) }

\* C11: is_valid(url) returns True exactly when the scheme is http or https, there is
\* no fragment, the host ends with an allowed domain and is not gitlab.ics.uci.edu,
\* path and query hold no trap marker and match no date pattern, the lower-cased
\* path ends in no denied extension, and valid_query accepts the query.
C11_TrueIffEligible ==
  last.op = "is_valid" => (last.value <=> Urls[last.arg] \in Eligible)

\* is_valid accepted https://www.ics.uci.edu/ after it had rejected, or raised on,
\* the url of its first call.
C11_Witness ==
  /\ last.op = "is_valid"
  /\ last.value
  /\ Urls[last.arg] = "https://www.ics.uci.edu/"
  /\ probe.arg # 0
  /\ ~ probe.value

\* The key of a parameter name=value of a query string, or of a bare name.
KeyOf(piece) == IF Contains(piece, "=") THEN Before(piece, "=") ELSE piece

\* The queries with at most 100 parameters, none of whose keys is in
\* DOKU_MEDIA_PARAMS or in invalid_query_parameters.
AcceptableQueries ==
  { query \in Range(Queries) :
      LET pieces == split(query, "&")
          params == { k \in 1..Len(pieces) : pieces[k] # "" }
      IN  /\ Cardinality(params) <= 100
          /\ \A k \in params :
               KeyOf(pieces[k]) \notin DOKU_MEDIA_PARAMS \cup invalid_query_parameters }

\* C12: valid_query returns False for every query that holds a parameter whose key is
\* in DOKU_MEDIA_PARAMS or in the set of low-value keys, and for every query of
\* more than 100 parameters; it returns True for every other query, the empty
\* one included.
C12_RejectsListedKeys ==
  last.op = "valid_query" => (last.value <=> Queries[last.arg] \in AcceptableQueries)

\* The stripped hrefs of the anchors of the page of the i-th call, a supported one.
HrefsOf(i) ==
  LET hrefs == find_all_a_href(BodyOf(i).head)
  IN  { strip(hrefs[k]) : k \in 1..Len(hrefs) }

\* An href that names no page: mailto:, javascript: or tel:.
NoPageHref(href) ==
  StartsWith(href, "mailto:") \/ StartsWith(href, "javascript:") \/ StartsWith(href, "tel:")

\* What the supported calls can return: the eligible links that the hrefs of their
\* pages other than mailto:, javascript: and tel: hrefs resolve to, without fragment.
ReturnableLinks ==
  { << i, { link \in CandidateLinks :
              /\ EligibleParsed(urlparse(link))
              /\ ~ Contains(link, "#")
              /\ \E href \in HrefsOf(i) :
                   /\ ~ NoPageHref(href)
                   /\ joined_link(urljoin(Calls[i].resp.raw_response.url, href)) = << link >> } >> :
      i \in { j \in 1..Len(Calls) : ~ UnsupportedCall(j) } }

\* C13: every URL of the list scraper returns satisfies is_valid, has no fragment and
\* occurs once in the list; it comes from an href that does not start with mailto:,
\* javascript: or tel:; and the list is empty unless the page was admitted.
C13_ReturnedLinksAreValid ==
  (last.op = "scraper" /\ last.ret # <<>>) =>
    /\ ~ UnsupportedCall(last.arg)
    /\ \A k \in 1..Len(last.ret) : last.ret[k] \in Lookup(ReturnableLinks, last.arg)
    /\ \A j, k \in 1..Len(last.ret) : last.ret[j] = last.ret[k] => j = k
    /\ last.gate = "admitted"
    /\ Calls[last.arg].resp.raw_response.url \in TOTAL_UNIQUE_PAGES

\* scraper returned links of a page that also holds a mailto:, javascript: or tel:
\* href and an href with a fragment.
C13_Witness ==
  /\ last.op = "scraper"
  /\ Len(last.ret) >= 2
  /\ \E href \in HrefsOf(last.arg) : NoPageHref(href)
  /\ \E href \in HrefsOf(last.arg) : Contains(href, "#")

\* The hosts that are keys of SUBDOMAIN_PAGE_COUNT.
ReportedHosts == { host \in DOMAIN SUBDOMAIN_PAGE_COUNT : SUBDOMAIN_PAGE_COUNT[host] # {} }

\* Entry d of WORD_FREQUENCIES comes before entry e in the report: a higher count,
\* or the same count and seen first.
ReportedBefore(d, e) ==
  \/ WORD_FREQUENCIES[d].count > WORD_FREQUENCIES[e].count
  \/ WORD_FREQUENCIES[d].count = WORD_FREQUENCIES[e].count /\ d < e

\* The report lines: the three head lines, m word lines, the subdomain total and one
\* line per host.
ReportAsSpecified(lines, m, hosts) ==
  /\ Len(lines) = 4 + m + Cardinality(hosts)
  /\ m = IF Len(WORD_FREQUENCIES) < 50 THEN Len(WORD_FREQUENCIES) ELSE 50
  /\ lines[1] = "Unique pages: " \o str(Cardinality(TOTAL_UNIQUE_PAGES))
  /\ lines[2] = "Longest word count url: " \o LONGEST_PAGE.url
  /\ lines[3] = "Longest word count: " \o str(LONGEST_PAGE.word_count)
  /\ \A k \in 1..m :
       \E e \in 1..Len(WORD_FREQUENCIES) :
         /\ lines[3 + k]
              = WORD_FREQUENCIES[e].word \o ": " \o str(WORD_FREQUENCIES[e].count)
         /\ Cardinality({ d \in 1..Len(WORD_FREQUENCIES) : ReportedBefore(d, e) }) = k - 1
  /\ lines[4 + m] = "Total subdomains: " \o str(Cardinality(hosts))
  /\ \A k \in 1..Cardinality(hosts) :
       \E host \in hosts :
         /\ lines[4 + m + k] = host \o ": " \o str(Cardinality(SUBDOMAIN_PAGE_COUNT[host]))
         /\ Cardinality({ other \in hosts : StrLess(other, host) }) = k - 1

\* C14: generate_report writes the number of unique pages, the url and the word count
\* of the longest page, at most 50 word lines by non-increasing count with equal
\* counts in first-seen order, the number of hosts, and one line per host in
\* ascending order with the number of its URLs; it changes none of the aggregates.
C14_ReportAsSpecified ==
  /\ []( last.op = "generate_report" =>
           ReportAsSpecified(last.ret, Len(last.ret) - 4 - Cardinality(ReportedHosts),
                             ReportedHosts) )
  /\ [][ last'.op = "generate_report" => UNCHANGED shared ]_vars

\* A report was written with more than 50 words counted, words of equal count among
\* them, and at least two hosts.
C14_Witness ==
  /\ last.op = "generate_report"
  /\ Len(WORD_FREQUENCIES) > 50
  /\ Len(last.ret) = 54 + Cardinality(ReportedHosts)
  /\ Cardinality(ReportedHosts) >= 2
  /\ \E d, e \in 1..Len(WORD_FREQUENCIES) :
       d # e /\ WORD_FREQUENCIES[d].count = WORD_FREQUENCIES[e].count

\* resp is None, resp.status is not 200, or resp.raw_response is None.
StatusRejected(i) ==
  \/ Calls[i].resp.none
  \/ Calls[i].resp.status # 200
  \/ Calls[i].resp.raw_response.none

\* The gate at which the i-th call stops in the state it is made in, the gates taken
\* in the order status, content type, exact duplicate, 50 words, sparse large body,
\* near duplicate.
FirstGate(i) ==
  IF StatusRejected(i) THEN "unsupported"
  ELSE IF UnsupportedCall(i) THEN "content_type"
  ELSE IF Lookup(content_hash_of, BodyOf(i)) \in CONTENT_HASHES THEN "exact_duplicate"
  ELSE IF Len(WordsOf(i)) < 50 THEN "too_few_words"
  ELSE IF Len(WordsOf(i)) < 100 /\ content_len(BodyOf(i)) > 1000000 THEN "sparse_large"
  ELSE IF \E seen \in NEAR_DUPLICATE_FINGERPRINTS : Jaccard95(Fingerprint(WordsOf(i)), seen)
  THEN "near_duplicate"
  ELSE "admitted"

\* C15: the gates of extract_next_links take effect in the order status, content
\* type, exact-duplicate hash, 50-word floor, sparse-large-body rule, near-duplicate
\* check: the body hash is inserted into CONTENT_HASHES in exactly the calls that
\* pass the status and content-type gates with a hash not yet present, also when the
\* page is rejected afterwards, and a fingerprint is registered only in calls that
\* passed every gate before the near-duplicate check.
C15_GatesInOrder ==
  [][ last'.op = "scraper" =>
        /\ last'.gate = FirstGate(last'.arg)
        /\ CONTENT_HASHES' =
             IF FirstGate(last'.arg) \in {"unsupported", "content_type", "exact_duplicate"}
             THEN CONTENT_HASHES
             ELSE CONTENT_HASHES \cup {Lookup(content_hash_of, BodyOf(last'.arg))}
        /\ CONTENT_HASHES' # CONTENT_HASHES =>
             FirstGate(last'.arg)
               \in {"too_few_words", "sparse_large", "near_duplicate", "admitted"}
        /\ NEAR_DUPLICATE_FINGERPRINTS' # NEAR_DUPLICATE_FINGERPRINTS =>
             FirstGate(last'.arg) = "admitted" ]_vars

\* A large page of fewer than 100 words was rejected by the sparse-large-body rule:
\* its hash is in CONTENT_HASHES, and its fingerprint is not registered although no
\* registered fingerprint is similar to it.
C15_Witness ==
  /\ last.op = "scraper"
  /\ last.gate = "sparse_large"
  /\ Lookup(content_hash_of, BodyOf(last.arg)) \in CONTENT_HASHES
  /\ NEAR_DUPLICATE_FINGERPRINTS # {}
  /\ Fingerprint(WordsOf(last.arg)) # {}
  /\ \A seen \in NEAR_DUPLICATE_FINGERPRINTS : ~ Jaccard95(Fingerprint(WordsOf(last.arg)), seen)

\* Worker w passed the exact-duplicate gate: it goes on to parsing and statistics.
PassedHashGate(w) ==
  \/ threads[w].pc = "parse"
  \/ /\ threads[w].pc = "done"
     /\ threads[w].ret \in {"too_few_words", "sparse_large", "near_duplicate", "admitted"}

\* C16: of the concurrent calls of extract_next_links that carry byte-identical
\* bodies at most one passes the exact-duplicate gate, in every interleaving.
C16_HashGateAtomic ==
  \A v \in Workers : \A w \in Workers \ {v} :
    ( /\ threads[v].call # 0
      /\ threads[w].call # 0
      /\ ~ unsupported(Calls[threads[v].call].resp)
      /\ ~ unsupported(Calls[threads[w].call].resp)
      /\ Calls[threads[v].call].resp.raw_response.content
           = Calls[threads[w].call].resp.raw_response.content )
    => ~ (PassedHashGate(v) /\ PassedHashGate(w))

\* The greatest filtered word count of the first n admitted pages, 0 for none.
MaxAdmitted(n) ==
  IF n = 0 THEN 0
  ELSE CHOOSE count \in { Len(WordsOf(admitted[k])) : k \in 1..n } :
         \A k \in 1..n : Len(WordsOf(admitted[k])) <= count

\* C17: LONGEST_PAGE["word_count"] is the greatest filtered word count of the
\* admitted pages, 0 when none was admitted, and LONGEST_PAGE["url"] is the url of
\* the first admitted page with that word count.
C17_LongestIsFirstMaximum ==
  /\ LONGEST_PAGE.word_count = MaxAdmitted(Len(admitted))
  /\ admitted # <<>> =>
       \E k \in 1..Len(admitted) :
         /\ Len(WordsOf(admitted[k])) = MaxAdmitted(Len(admitted))
         /\ \A j \in 1..(k - 1) : Len(WordsOf(admitted[j])) < MaxAdmitted(Len(admitted))
         /\ LONGEST_PAGE.url = Calls[admitted[k]].resp.raw_response.url

\* A page was admitted with the word count of the longest page so far, after it.
C17_Witness ==
  /\ last.op = "scraper"
  /\ last.gate = "admitted"
  /\ Len(admitted) >= 2
  /\ admitted[Len(admitted)] = last.arg
  /\ Len(WordsOf(last.arg)) = LONGEST_PAGE.word_count
  /\ LONGEST_PAGE.url # Calls[last.arg].resp.raw_response.url

\* C18: is_near_duplicate on fewer than 10 tokens, or on tokens whose sampled
\* fingerprint is empty, returns False and registers nothing, at every call and
\* whatever was presented before.
C18_ShortOrUnsampledIsNovel ==
  [][ ( /\ last'.op = "is_near_duplicate"
        /\ Len(Docs[last'.arg]) < 10 \/ Fingerprint(Docs[last'.arg]) = {} )
      => /\ ~ last'.value
         /\ NEAR_DUPLICATE_FINGERPRINTS' = NEAR_DUPLICATE_FINGERPRINTS ]_vars

\* A sequence of at least 10 tokens with an empty sampled fingerprint was judged
\* novel when other fingerprints were registered, and no empty one.
C18_Witness ==
  /\ last.op = "is_near_duplicate"
  /\ Len(Docs[last.arg]) >= 10
  /\ Fingerprint(Docs[last.arg]) = {}
  /\ ~ last.value
  /\ NEAR_DUPLICATE_FINGERPRINTS # {}
  /\ {} \notin NEAR_DUPLICATE_FINGERPRINTS

\* The host of a link: urlparse(link).hostname, lower case.
HostOf(link) == hostname(urlparse(link))

\* The last n characters of host are those of suffix.
HasSuffix(host, suffix) ==
  /\ Len(host) >= Len(suffix)
  /\ \A k \in 1..Len(suffix) :
       CharAt(host, Len(host) - Len(suffix) + k) = CharAt(suffix, k)

\* C19: every key of SUBDOMAIN_PAGE_COUNT is a host ending in .uci.edu; every url
\* stored under a key has that key as its host and was returned by a call of scraper;
\* every link scraper returned is stored under its host; so the url of a processed
\* page is stored only if some call returned it as a link.
C19_SubdomainsAreReturnedLinks ==
  /\ \A host \in ReportedHosts : HasSuffix(host, ".uci.edu")
  /\ \A host \in DOMAIN SUBDOMAIN_PAGE_COUNT : \A link \in SUBDOMAIN_PAGE_COUNT[host] :
       HostOf(link) = host /\ link \in returned
  /\ \A link \in returned :
       /\ HostOf(link) \in DOMAIN SUBDOMAIN_PAGE_COUNT
       /\ link \in SUBDOMAIN_PAGE_COUNT[HostOf(link)]
  /\ \A k \in 1..Len(admitted) :
       (\E host \in ReportedHosts :
          Calls[admitted[k]].resp.raw_response.url \in SUBDOMAIN_PAGE_COUNT[host])
       => Calls[admitted[k]].resp.raw_response.url \in returned

\* Links were stored under two hosts, the url of one processed page among them and
\* the url of another processed page not.
C19_Witness ==
  /\ last.op = "scraper"
  /\ Len(last.ret) >= 2
  /\ Cardinality(ReportedHosts) >= 2
  /\ \E j, k \in 1..Len(admitted) :
       /\ \E host \in ReportedHosts :
            Calls[admitted[j]].resp.raw_response.url \in SUBDOMAIN_PAGE_COUNT[host]
       /\ \A host \in ReportedHosts :
            Calls[admitted[k]].resp.raw_response.url \notin SUBDOMAIN_PAGE_COUNT[host]

\* The greatest word count recorded in page_word_counts of a CrawlerStats object, 0
\* when none is recorded: what get_longest_page returns as word count.
LongestCount(object) ==
  IF object.page_word_counts = <<>> THEN 0
  ELSE CHOOSE count \in { object.page_word_counts[k].word_count :
                            k \in 1..Len(object.page_word_counts) } :
         \A k \in 1..Len(object.page_word_counts) :
           object.page_word_counts[k].word_count <= count

\* C20: across any sequence of add_page calls, calls for one url with different
\* contents included, the size of unique_pages never decreases and the word count
\* get_longest_page returns never decreases.
C20_StatsGrow ==
  [][ /\ Cardinality(stats'.unique_pages) >= Cardinality(stats.unique_pages)
      /\ LongestCount(stats') >= LongestCount(stats) ]_vars

\* C21: in every state reached by sequential calls NEAR_DUPLICATE_FINGERPRINTS holds
\* only non-empty fingerprints, and no two distinct registered fingerprints have
\* Jaccard similarity >= 0.95 with each other.
C21_RegistryPairwiseDistant ==
  \A fingerprint \in NEAR_DUPLICATE_FINGERPRINTS :
    /\ fingerprint # {}
    /\ \A other \in NEAR_DUPLICATE_FINGERPRINTS \ {fingerprint} :
         ~ Jaccard95(fingerprint, other)

\* A call was judged a near duplicate when three or more fingerprints were
\* registered, two of which share hashes.
C21_Witness ==
  /\ last.op = "is_near_duplicate"
  /\ last.value
  /\ Cardinality(NEAR_DUPLICATE_FINGERPRINTS) >= 3
  /\ Fingerprint(Docs[last.arg]) \notin NEAR_DUPLICATE_FINGERPRINTS
  /\ \E fingerprint \in NEAR_DUPLICATE_FINGERPRINTS :
       \E other \in NEAR_DUPLICATE_FINGERPRINTS \ {fingerprint} :
         fingerprint \cap other # {}

\* LONGEST_PAGE holds the url and the filtered word count of one processed page, or
\* is as constructed.
LongestOfOnePage ==
  \/ LONGEST_PAGE = [url |-> None, word_count |-> 0]
  \/ \E k \in 1..Len(admitted) :
       /\ LONGEST_PAGE.url = Calls[admitted[k]].resp.raw_response.url
       /\ LONGEST_PAGE.word_count = Len(WordsOf(admitted[k]))

\* C22: when concurrent workers process admitted pages, LONGEST_PAGE["word_count"]
\* never decreases, and whenever no worker is between the comparison and the end of
\* its update the url and the word count of LONGEST_PAGE belong to one page.
C22_LongestUpdateAtomic ==
  /\ [][ LONGEST_PAGE'.word_count >= LONGEST_PAGE.word_count ]_vars
  /\ []( (\A w \in Workers : threads[w].pc \notin {"url", "count"}) => LongestOfOnePage )

\* C23: in every state reached by sequential calls of scraper the number of admitted
\* pages is at most the size of CONTENT_HASHES, and so are the sizes of
\* TOTAL_UNIQUE_PAGES and of NEAR_DUPLICATE_FINGERPRINTS; CONTENT_HASHES never
\* shrinks.
C23_HashesBoundAdmissions ==
  /\ []( /\ Len(admitted) <= Cardinality(CONTENT_HASHES)
         /\ Cardinality(TOTAL_UNIQUE_PAGES) <= Cardinality(CONTENT_HASHES)
         /\ Cardinality(NEAR_DUPLICATE_FINGERPRINTS) <= Cardinality(CONTENT_HASHES) )
  /\ [][ CONTENT_HASHES \subseteq CONTENT_HASHES' ]_vars

\* Several pages were admitted, and others were hashed and rejected afterwards: for
\* too few words, and as a near duplicate.
C23_Witness ==
  /\ last.op = "scraper"
  /\ last.gate = "near_duplicate"
  /\ Len(admitted) >= 2
  /\ Cardinality(TOTAL_UNIQUE_PAGES) = Len(admitted)
  /\ Cardinality(NEAR_DUPLICATE_FINGERPRINTS) = Len(admitted)
  /\ Cardinality(CONTENT_HASHES) >= Len(admitted) + 2

\* h := (h * 33 + code(c)) mod 2^64 for the characters of text from the i-th on.
RECURSIVE Wraparound(_, _, _)
Wraparound(text, i, h) ==
  IF i > Len(text) THEN h
  ELSE Wraparound(text, i + 1,
                  SubSeq(MulAdd33(h, ord(CharAt(text, i))) \o <<0, 0, 0, 0, 0, 0, 0, 0>>,
                         1, 8))

\* The digits are those of a number in [0, 2^64).
Below64Bits(digits) ==
  /\ Len(digits) = 8
  /\ \A k \in 1..8 : digits[k] \in 0..255

\* C24: djb2_hash returns a value in [0, 2^64), the one obtained from 5381 by
\* h := (h * 33 + code(c)) mod 2^64 for each character in order, at every call;
\* djb2_hash_bytes returns the same value on the bytes of an ASCII string.
C24_HashIs64BitWraparound ==
  last.op \in {"djb2_hash", "djb2_hash_bytes"} =>
    /\ Below64Bits(last.ret)
    /\ last.ret = Wraparound(Texts[last.arg], 1, <<5, 21, 0, 0, 0, 0, 0, 0>>)

\* djb2_hash was called, after calls of is_near_duplicate, on a string for which the
\* unmasked accumulator has passed 2^64.
C24_Witness ==
  /\ last.op = "djb2_hash"
  /\ Len(djb2_loop(Texts[last.arg], 1, NatDigits(5381))) > 8
  /\ NEAR_DUPLICATE_FINGERPRINTS # {}

====
